---------------------------- MODULE Spec2Model ----------------------------
(***************************************************************************)
(* ScreenshotEngine (js/screenshot-engine.js): page analysis, strategy     *)
(* selection, section planning and the scroll / wait / capture loop of one *)
(* engine object living in one page context.                               *)
(*                                                                         *)
(* Numbers.  window.innerHeight, scrollHeight and friends are integers.    *)
(* For integers h, p the double products of the source agree with exact    *)
(* arithmetic: the doubles 1.1 and 0.1 lie slightly above 11/10 and 1/10   *)
(* and the rounded product never falls below the exact one, so             *)
(*    p <= h * 1.1            iff  10 * p <= 11 * h                        *)
(*    Math.floor(h * 0.1)     =    h \div 10                               *)
(*    Math.ceil(p / s)        =    (p + s - 1) \div s   (s > 0)            *)
(***************************************************************************)
EXTENDS Integers, Sequences, FiniteSets, TLC

(***************************************************************************)
(* Bounds of the model.                                                    *)
(***************************************************************************)
NCalls == 2
MaxImages == 1
MaxRegions == 4
MaxFrames == 3
MaxVH == 12
MaxPH == 30
MaxDrift == 2
NShots == 2        \* takeScreenshot calls in the background
NElements == 2     \* form elements of the options page that save on change
MaxEvents == 3     \* change and input events on the options page
MaxSaves == 22     \* saveState calls in the editor
MaxUndos == 3      \* undo steps in the editor

(***************************************************************************)
(* Program constants.                                                      *)
(***************************************************************************)
RegionThreshold == 3
Wait == 1000           \* debounce(autoSave, 1000)
HistoryLimit == 20     \* if (editHistory.length > 20)
FrameThreshold == 2
StableChecks == 3

Calls == 1..NCalls
Null == "null"

Min(a, b) == IF a <= b THEN a ELSE b
Max(a, b) == IF a >= b THEN a ELSE b

\* Math.floor for Math.ceil
FloorDiv(a, b) == a \div b

\* Math.ceil(a / b) for integers a >= 0, b > 0
CeilDiv(a, b) == (a + b - 1) \div b

\* Math.round for Math.floor
RoundTenth(h) == (h + 5) \div 10

\* Math.floor(h * 0.1)
FloorTenth(h) == h \div 10

\* a <= b * 1.1
WithinSlack(a, b) == 10 * a <= 11 * b

(***************************************************************************)
(* Error messages of the engine.                                           *)
(***************************************************************************)
ErrInProgress == "Capture already in progress"
ErrCaptureTab == "Failed to capture visible area"
ErrUnknownStrategy == "Unknown capture strategy"
ErrAnalyze == "TypeError: document.body is null"
ErrNotAFunction == "TypeError: not a function"
ErrLoadImage == "image load error"

(***************************************************************************)
(* Frames of the document.  Reading iframe.contentDocument either gives the *)
(* document (same origin), gives null (cross origin) or throws.            *)
(***************************************************************************)
FrameKinds == <<"same-origin", "cross-origin", "throwing">>

FrameList(n, k) == [i \in 1..n |-> FrameKinds[((i + k) % 3) + 1]]

isIframeAccessible(iframe) == iframe # "throwing"

(***************************************************************************)
(* analyzePage: the snapshot of the live page.  d is the document and      *)
(* window geometry, at the current scroll offset.                          *)
(***************************************************************************)
analyzePage(d, offset) ==
    [ viewport |-> [width |-> d.innerWidth, height |-> d.innerHeight],
      page     |-> [width |-> d.width, height |-> d.height],
      scroll   |-> [x |-> offset.x, y |-> offset.y,
                    maxX |-> d.width - d.innerWidth,
                    maxY |-> d.height - d.innerHeight],
      scrollableElements |-> [i \in 1..d.regions |-> i],
      iframes  |-> [i \in 1..Len(d.frames) |->
                      [element |-> i,
                       accessible |-> isIframeAccessible(d.frames[i])]] ]

(***************************************************************************)
(* calculateSections: the for loop of the planner, pushing one section per *)
(* iteration.                                                              *)
(***************************************************************************)
\* SectionY without the clamp to the last scroll offset
SectionYUnclamped(i, sectionHeight, analysis) == i * sectionHeight

\* SectionY clamped to the page bottom instead of the last scroll offset
SectionYClampedToPage(i, sectionHeight, analysis) ==
    Min(i * sectionHeight, analysis.page.height)

\* SectionY stepping by the whole viewport height
SectionYWithoutOverlap(i, sectionHeight, analysis) ==
    Min(i * analysis.viewport.height,
        analysis.page.height - analysis.viewport.height)

SectionY(i, sectionHeight, analysis) ==
    Min(i * sectionHeight, analysis.page.height - analysis.viewport.height)

\* Section as high as the stride, not as the viewport
SectionOfStrideHeight(i, y, analysis) ==
    [x |-> 0, y |-> y, width |-> analysis.viewport.width,
     height |-> analysis.viewport.height
                   - FloorTenth(analysis.viewport.height),
     index |-> i]

\* Section as wide as the page
SectionPageWide(i, y, analysis) ==
    [x |-> 0, y |-> y, width |-> analysis.page.width,
     height |-> analysis.viewport.height, index |-> i]

Section(i, y, analysis) ==
    [x |-> 0, y |-> y, width |-> analysis.viewport.width,
     height |-> analysis.viewport.height, index |-> i]

RECURSIVE SectionsLoop(_, _, _, _, _)
SectionsLoop(i, numSections, sectionHeight, analysis, sections) ==
    IF i < numSections
    THEN SectionsLoop(i + 1, numSections, sectionHeight, analysis,
             Append(sections,
                    Section(i, SectionY(i, sectionHeight, analysis), analysis)))
    ELSE sections

calculateSections(analysis) ==
    IF analysis.page.height > analysis.viewport.height
    THEN LET overlap == FloorTenth(analysis.viewport.height)
             sectionHeight == analysis.viewport.height - overlap
             numSections == CeilDiv(analysis.page.height, sectionHeight)
         IN  SectionsLoop(0, numSections, sectionHeight, analysis, <<>>)
    ELSE << Section(0, 0, analysis) >>

(***************************************************************************)
(* determineCaptureStrategy                                                *)
(***************************************************************************)
\* FitsViewport without the 10% slack
FitsWithoutSlack(analysis) ==
    /\ analysis.page.height <= analysis.viewport.height
    /\ analysis.page.width <= analysis.viewport.width

FitsViewport(analysis) ==
    /\ WithinSlack(analysis.page.height, analysis.viewport.height)
    /\ WithinSlack(analysis.page.width, analysis.viewport.width)

\* IsComplexPage with >= for >
IsComplexAtThreshold(analysis) ==
    \/ Len(analysis.scrollableElements) >= RegionThreshold
    \/ Len(analysis.iframes) >= FrameThreshold

IsComplexPage(analysis) ==
    \/ Len(analysis.scrollableElements) > RegionThreshold
    \/ Len(analysis.iframes) > FrameThreshold

\* StrategyFrames ignoring options.captureIframes
AllFrames(analysis, options) == analysis.iframes

StrategyFrames(analysis, options) ==
    IF options.captureIframes THEN analysis.iframes ELSE <<>>

ComplexStrategy(analysis, options) ==
    [type |-> "complex",
     scrollableElements |-> analysis.scrollableElements,
     iframes |-> StrategyFrames(analysis, options),
     sections |-> calculateSections(analysis),
     scrollDirection |-> Null]

\* ScrollStrategy with a type the switch does not know
ScrollStrategyMisnamed(analysis) ==
    [type |-> "scrolling",
     scrollableElements |-> <<>>,
     iframes |-> <<>>,
     sections |-> calculateSections(analysis),
     scrollDirection |-> "vertical"]

ScrollStrategy(analysis) ==
    [type |-> "scroll",
     scrollableElements |-> <<>>,
     iframes |-> <<>>,
     sections |-> calculateSections(analysis),
     scrollDirection |-> IF analysis.page.height > analysis.page.width
                         THEN "vertical" ELSE "horizontal"]

ViewportStrategy ==
    [type |-> "viewport", scrollableElements |-> <<>>, iframes |-> <<>>,
     sections |-> <<>>, scrollDirection |-> Null]

determineCaptureStrategy(analysis, options) ==
    IF FitsViewport(analysis) THEN ViewportStrategy
    ELSE IF IsComplexPage(analysis) THEN ComplexStrategy(analysis, options)
    ELSE ScrollStrategy(analysis)

(***************************************************************************)
(* The pages and documents the sessions run on.  Each geometry is          *)
(* <<innerWidth, innerHeight, page width, page height>>.                   *)
(***************************************************************************)
SessionGeometries ==
    { <<12, 10, 12, 10>>,        \* page = viewport
      <<12, 10, 13, 11>>,        \* inside the 10% slack
      <<12, 10, 12, 12>>,        \* 2 sections
      <<12, 10, 12, 20>>,        \* 3 sections
      <<12, 10, 14, 10>>,        \* wide page, one section
      <<12, 10, 12, 8>>,         \* page shorter than the viewport
      <<800, 600, 800, 1800>>,   \* 4 sections, last clamped to 1200
      <<1024, 768, 1000, 700>> } \* viewport capture

SessionContents ==
    { [regions |-> 0, frames |-> <<>>, hasBody |-> TRUE],
      [regions |-> 3, frames |-> FrameList(2, 0), hasBody |-> TRUE],
      [regions |-> 4, frames |-> <<>>, hasBody |-> TRUE],
      [regions |-> 1, frames |-> FrameList(3, 0), hasBody |-> TRUE],
      [regions |-> 0, frames |-> <<>>, hasBody |-> FALSE] }

Document(g, content) ==
    [innerWidth |-> g[1], innerHeight |-> g[2], width |-> g[3], height |-> g[4],
     regions |-> content.regions, frames |-> content.frames,
     hasBody |-> content.hasBody]

SessionDocuments ==
    { Document(g, content) : g \in SessionGeometries, content \in SessionContents }

\* The largest scroll offsets of a document.
MaxScrollX(d) == Max(0, d.width - d.innerWidth)
MaxScrollY(d) == Max(0, d.height - d.innerHeight)

InitialOffsets(d) ==
    { [x |-> x, y |-> y] : x \in {0, MaxScrollX(d)}, y \in {0, MaxScrollY(d)} }

\* The inputs of the planner and the selector, taken over a wider range.
PlanGeometries ==
    { <<10, vh, pw, ph>> : vh \in 1..MaxVH, pw \in 9..12, ph \in 1..MaxPH }
      \cup { <<800, 600, 800, 1800>>, <<1024, 768, 1000, 700>>,
             <<10, 20, 12, 37>> }   \* the last two sections both clamped

PlanContents ==
    { [regions |-> r, frames |-> FrameList(n, k), hasBody |-> TRUE] :
          r \in 0..MaxRegions, n \in 0..MaxFrames, k \in 0..1 }

PlanDocuments ==
    { Document(g, content) : g \in PlanGeometries, content \in PlanContents }

CaptureOptions == { [captureIframes |-> b] : b \in BOOLEAN }

(***************************************************************************)
(* State.                                                                  *)
(***************************************************************************)
VARIABLES
    doc,          \* the document and window geometry
    scroll,       \* window.pageXOffset, window.pageYOffset
    now,          \* Date.now()
    isCapturing,  \* this.isCapturing
    captureId,    \* this.captureId
    pc,           \* where each captureFullPage call is suspended
    loc,          \* the locals of each call and of the functions it awaits
    hist,         \* what each call did so far
    \* the content script and the background service worker
    content,      \* content.js: its globals and the indicator in the page
    shot,         \* each takeScreenshot call and the messages it leads to
    \* the options page
    clock,        \* the time in ms
    timeout,      \* the timer of each debounced function, -1 with none pending
    events,       \* the change and input events so far
    saved,        \* the times at which saveSettings was called
    \* the editor
    editHistory,  \* editHistory
    historyIndex, \* historyIndex
    snapshots,    \* how many times canvas.toDataURL() was called
    undone        \* how many times undo stepped back

engine == <<doc, scroll, now, isCapturing, captureId, pc, loc, hist>>

extension == <<content, shot>>

optionsPage == <<clock, timeout, events, saved>>

editor == <<editHistory, historyIndex, snapshots, undone>>

\* what the engine does not touch
outside == <<extension, optionsPage, editor>>

vars == <<engine, outside>>

NoAnalysis ==
    [ viewport |-> [width |-> 0, height |-> 0],
      page     |-> [width |-> 0, height |-> 0],
      scroll   |-> [x |-> 0, y |-> 0, maxX |-> 0, maxY |-> 0],
      scrollableElements |-> <<>>,
      iframes  |-> <<>> ]

NoStrategy ==
    [type |-> "none", scrollableElements |-> <<>>, iframes |-> <<>>,
     sections |-> <<>>, scrollDirection |-> Null]

InitLocals ==
    [ options        |-> [captureIframes |-> FALSE],
      analysis       |-> NoAnalysis,
      strategy       |-> NoStrategy,
      i              |-> 0,
      captures       |-> <<>>,
      originalScroll |-> [x |-> 0, y |-> 0],
      anim           |-> [startX |-> 0, startY |-> 0, x |-> 0, y |-> 0, mid |-> FALSE],
      phase          |-> Null,
      lastScrollY    |-> 0,
      stableCount    |-> 0,
      samples        |-> <<>>,
      images         |-> 0,
      thrown         |-> Null,
      canvas         |-> [width |-> 0, height |-> 0, drawn |-> <<>>],
      k              |-> 0 ]

InitHistory ==
    [ startScroll    |-> [x |-> 0, y |-> 0],
      captureId      |-> Null,
      scrolledTo     |-> <<>>,
      captureTabs    |-> <<>>,
      regionAttempts |-> <<>>,
      frameAttempts  |-> <<>>,
      swallowed      |-> 0,
      secondary      |-> <<>>,
      stitched       |-> FALSE,
      stitchInput    |-> <<>>,
      progress       |-> <<>>,
      failedAt       |-> -1,
      error          |-> Null,
      captureType    |-> Null,
      imageData      |-> [width |-> 0, height |-> 0, drawn |-> <<>>] ]

(***************************************************************************)
(* The rest of the extension at rest: the content script loaded and idle,  *)
(* no takeScreenshot call, the options page and the editor just opened.    *)
(***************************************************************************)
Shots == 1..NShots

InitShot ==
    [ pc             |-> "idle",
      options        |-> "absent",   \* options.autoOpenViewer until merged
      autoOpenViewer |-> "absent",   \* captureOptions.autoOpenViewer
      answer         |-> Null,       \* the response in flight: ok or an error
      captureTabs    |-> 0,          \* 'captureTab' messages sent for it
      overlay        |-> "none",     \* what captureVisibleTab pictured
      answered       |-> FALSE,      \* 'startCapture' answered with success
      viewers        |-> 0,          \* chrome.tabs.create(viewer.html) calls
      notifications  |-> 0,          \* chrome.notifications.create calls
      responses      |-> <<>> ]      \* sendResponse calls for 'takeScreenshot'

ContentIdle(injected) ==
    [injected |-> injected, isCapturing |-> FALSE, indicators |-> 0]

ExtensionIdle ==
    /\ content = ContentIdle(TRUE)
    /\ shot = [t \in Shots |-> InitShot]

\* the debounced functions: one per form element, one per input event of
\* the scroll delay slider
Debounced == 1..(NElements + MaxEvents)

OptionsIdle ==
    /\ clock = 0
    /\ timeout = [d \in Debounced |-> -1]
    /\ events = <<>>
    /\ saved = <<>>

\* let editHistory = []; let historyIndex = -1;
EditorIdle ==
    /\ editHistory = <<>>
    /\ historyIndex = -1
    /\ snapshots = 0
    /\ undone = 0

\* the engine where it is not in use
EngineIdle ==
    /\ doc = Document(<<12, 10, 12, 10>>,
                      [regions |-> 0, frames |-> <<>>, hasBody |-> TRUE])
    /\ scroll = [x |-> 0, y |-> 0]
    /\ now = 0
    /\ isCapturing = FALSE
    /\ captureId = Null
    /\ pc = [c \in Calls |-> "idle"]
    /\ loc = [c \in Calls |-> InitLocals]
    /\ hist = [c \in Calls |-> InitHistory]

EngineInit ==
    /\ ExtensionIdle
    /\ OptionsIdle
    /\ EditorIdle
    /\ now = 0
    /\ isCapturing = FALSE
    /\ captureId = Null
    /\ pc = [c \in Calls |-> "idle"]
    /\ loc = [c \in Calls |-> InitLocals]
    /\ hist = [c \in Calls |-> InitHistory]

Init ==
    /\ doc \in SessionDocuments
    /\ scroll \in InitialOffsets(doc)
    /\ EngineInit

(***************************************************************************)
(* Continuations.  Each takes the call's locals l and history h as updated *)
(* so far and states the next pc, loc, hist, isCapturing and captureId;    *)
(* the action that uses it states scroll, doc and now.                     *)
(***************************************************************************)
Suspend(c, l, h, at) ==
    /\ pc' = [pc EXCEPT ![c] = at]
    /\ loc' = [loc EXCEPT ![c] = l]
    /\ hist' = [hist EXCEPT ![c] = h]
    /\ UNCHANGED <<isCapturing, captureId>>

\* The locals of a call that has returned are gone; its options, analysis
\* and strategy are kept for the record.
Returned(l) ==
    [InitLocals EXCEPT !.options = l.options, !.analysis = l.analysis,
                       !.strategy = l.strategy]

\* captureFullPage's finally block, then the promise settles
Finally(c, l, h, outcome) ==
    /\ isCapturing' = FALSE
    /\ captureId' = Null
    /\ pc' = [pc EXCEPT ![c] = outcome]
    /\ loc' = [loc EXCEPT ![c] = Returned(l)]
    /\ hist' = [hist EXCEPT ![c] = h]

\* an error that leaves captureFullPage past its finally block
RejectWithoutFinally(c, l, h, error) ==
    /\ pc' = [pc EXCEPT ![c] = "rejected"]
    /\ loc' = [loc EXCEPT ![c] = Returned(l)]
    /\ hist' = [hist EXCEPT ![c] = [h EXCEPT !.error = error]]
    /\ UNCHANGED <<isCapturing, captureId>>

Reject(c, l, h, error) == Finally(c, l, [h EXCEPT !.error = error], "rejected")

\* processResult's return value: imageData and metadata.captureType
Resolve(c, l, h, captureType, imageData) ==
    Finally(c, l, [h EXCEPT !.captureType = captureType, !.imageData = imageData],
            "resolved")

\* scrollToPosition up to its first requestAnimationFrame
scrollToPosition(c, l, h, x, y, phase) ==
    Suspend(c,
            [l EXCEPT !.anim = [startX |-> scroll.x, startY |-> scroll.y,
                                x |-> x, y |-> y, mid |-> FALSE],
                      !.phase = phase],
            h, "scrolling")

\* captureVisibleArea not awaited: the request is sent and the caller goes on,
\* here to the restoring scroll
captureVisibleAreaNoAwait(c, l, h, what) ==
    scrollToPosition(c, l, [h EXCEPT !.captureTabs = Append(@, what)],
                     l.originalScroll.x, l.originalScroll.y, "restore")

\* captureVisibleArea: the 'captureTab' request is sent
captureVisibleArea(c, l, h, what) ==
    Suspend(c, l, [h EXCEPT !.captureTabs = Append(@, what)], "capturing")

\* the finally block of captureWithScrolling
RestoreTarget(l) == l.originalScroll

RestoreScroll(c, l, h) ==
    scrollToPosition(c, l, h, RestoreTarget(l).x, RestoreTarget(l).y, "restore")

\* the head of the for loop of captureWithScrolling
SectionLoop(c, l, h) ==
    IF l.i < Len(l.strategy.sections)
    THEN LET section == l.strategy.sections[l.i + 1]
         IN  scrollToPosition(c, l,
                 [h EXCEPT !.scrolledTo = Append(@, section.index)],
                 section.x, section.y, "section")
    ELSE RestoreScroll(c, l, h)

captureWithScrolling(c, l, h) ==
    SectionLoop(c,
                [l EXCEPT !.captures = <<>>, !.originalScroll = scroll, !.i = 0],
                h)

\* stitchImages on a canvas of the size of the viewport
StitchImagesOnViewport(c, l, h, captures) ==
    Suspend(c,
            [l EXCEPT !.captures = captures,
                      !.canvas = [width |-> l.analysis.viewport.width,
                                  height |-> l.analysis.viewport.height,
                                  drawn |-> <<>>],
                      !.k = 1],
            [h EXCEPT !.stitched = TRUE, !.stitchInput = captures],
            "stitching")

\* processResult with an array: stitchImages up to its first loadImage
StitchImages(c, l, h, captures) ==
    Suspend(c,
            [l EXCEPT !.captures = captures,
                      !.canvas = [width |-> l.analysis.page.width,
                                  height |-> l.analysis.page.height,
                                  drawn |-> <<>>],
                      !.k = 1],
            [h EXCEPT !.stitched = TRUE, !.stitchInput = captures],
            "stitching")

(***************************************************************************)
(* The secondary captures of captureComplex.  The class defines neither    *)
(* captureScrollableElement nor captureIframe: each call throws a          *)
(* TypeError inside its try block, which the catch logs.                   *)
(***************************************************************************)
captureScrollableElement(element) == [ok |-> FALSE, error |-> ErrNotAFunction]

captureIframe(iframeInfo) == [ok |-> FALSE, error |-> ErrNotAFunction]

\* the two calls without their catch blocks
SecondaryUncaught == FALSE

\* the catch blocks around the two calls
CatchesSecondary == TRUE

\* The two for loops: tried holds the elements tried so far, order the
\* region and frame captures in the order they were called.
RECURSIVE SecondaryLoop(_, _, _)
SecondaryLoop(todo, kind, acc) ==
    IF todo = <<>> \/ acc.thrown # Null THEN acc
    ELSE LET e == Head(todo)
             r == IF kind = "region" THEN captureScrollableElement(e)
                                     ELSE captureIframe(e)
         IN  SecondaryLoop(Tail(todo), kind,
               [acc EXCEPT !.tried = Append(@, e),
                           !.order = Append(@,
                               [kind |-> kind,
                                element |-> IF kind = "region" THEN e
                                            ELSE e.element]),
                           !.swallowed = IF ~r.ok /\ CatchesSecondary
                                         THEN @ + 1 ELSE @,
                           !.thrown = IF ~r.ok /\ ~CatchesSecondary
                                      THEN r.error ELSE @])

\* the loop without its test of iframeInfo.accessible
AnyFrame(iframeInfo) == TRUE

IsAccessible(iframeInfo) == iframeInfo.accessible

\* the loop over the frames placed before the loop over the regions
captureComplexFramesFirst(c, l, h) ==
    LET frames  == SecondaryLoop(SelectSeq(l.strategy.iframes, IsAccessible),
                       "frame",
                       [tried |-> <<>>, order |-> <<>>, swallowed |-> 0,
                        thrown |-> Null])
        regions == SecondaryLoop(l.strategy.scrollableElements, "region",
                       [tried |-> <<>>, order |-> frames.order,
                        swallowed |-> frames.swallowed, thrown |-> frames.thrown])
        h2 == [h EXCEPT !.regionAttempts = regions.tried,
                        !.frameAttempts = frames.tried,
                        !.swallowed = regions.swallowed,
                        !.secondary = regions.order]
    IN  IF regions.thrown # Null
        THEN Reject(c, l, h2, regions.thrown)
        ELSE StitchImages(c, l, h2, l.captures)

captureComplexRest(c, l, h) ==
    LET regions == SecondaryLoop(l.strategy.scrollableElements, "region",
                       [tried |-> <<>>, order |-> <<>>, swallowed |-> 0,
                        thrown |-> Null])
        frames  == SecondaryLoop(SelectSeq(l.strategy.iframes, IsAccessible),
                       "frame",
                       [tried |-> <<>>, order |-> regions.order,
                        swallowed |-> regions.swallowed,
                        thrown |-> regions.thrown])
        h2 == [h EXCEPT !.regionAttempts = regions.tried,
                        !.frameAttempts = frames.tried,
                        !.swallowed = frames.swallowed,
                        !.secondary = frames.order]
    IN  IF frames.thrown # Null
        THEN Reject(c, l, h2, frames.thrown)
        ELSE StitchImages(c, l, h2, l.captures)

\* what follows the restoring scroll of captureWithScrolling
AfterRestore(c, l, h) ==
    IF l.thrown # Null THEN Reject(c, l, h, l.thrown)
    ELSE IF l.strategy.type = "complex" THEN captureComplexRest(c, l, h)
    ELSE StitchImages(c, l, h, l.captures)

(***************************************************************************)
(* captureFullPage(captureOptions), up to its first await.                 *)
(***************************************************************************)
\* captureFullPage without its guard
GuardOmitted == FALSE

\* the guard of captureFullPage
CaptureInProgress == isCapturing

\* the guard placed inside the try block: its finally clears the flag
RejectThroughFinally(c) ==
    /\ UNCHANGED <<doc, scroll, now, outside>>
    /\ Reject(c, loc[c], hist[c], ErrInProgress)

\* throw new Error('Capture already in progress'): the call rejects
RejectInProgress(c) ==
    /\ pc' = [pc EXCEPT ![c] = "rejected"]
    /\ hist' = [hist EXCEPT ![c].error = ErrInProgress]
    /\ UNCHANGED <<doc, scroll, now, isCapturing, captureId, loc, outside>>

\* the flag and the id are set, analyzePage runs, the call awaits its result
BeginSession(c, options) ==
    /\ isCapturing' = TRUE
    /\ now' = now + 1
    /\ captureId' = ToString(now')
    /\ pc' = [pc EXCEPT ![c] = "analyzed"]
    /\ loc' = [loc EXCEPT ![c] =
                 [@ EXCEPT !.options = options,
                           !.analysis = IF doc.hasBody
                                        THEN analyzePage(doc, scroll) ELSE @,
                           !.thrown = IF doc.hasBody THEN Null ELSE ErrAnalyze]]
    /\ hist' = [hist EXCEPT ![c] =
                 [@ EXCEPT !.startScroll = scroll, !.captureId = captureId']]
    /\ UNCHANGED <<doc, scroll, outside>>

captureFullPage(c) ==
    /\ pc[c] = "idle"
    /\ IF CaptureInProgress
       THEN RejectInProgress(c)
       ELSE \E options \in CaptureOptions : BeginSession(c, options)

(***************************************************************************)
(* After await analyzePage(): strategy selection and the switch.           *)
(***************************************************************************)
Dispatch(c) ==
    /\ pc[c] = "analyzed"
    /\ UNCHANGED <<doc, scroll, now, outside>>
    /\ IF loc[c].thrown # Null
       THEN Reject(c, loc[c], hist[c], loc[c].thrown)
       ELSE LET strategy == determineCaptureStrategy(loc[c].analysis,
                                                     loc[c].options)
                l == [loc[c] EXCEPT !.strategy = strategy]
            IN  CASE strategy.type = "viewport" ->
                       captureVisibleArea(c, l, hist[c], -1)
                  [] strategy.type \in {"scroll", "complex"} ->
                       captureWithScrolling(c, l, hist[c])
                  [] OTHER ->
                       Reject(c, l, hist[c], ErrUnknownStrategy)

(***************************************************************************)
(* scrollToPosition: one animation frame.  A frame before the 300 ms are   *)
(* over scrolls to the eased position (progress 1/2 gives 7/8 of the way); *)
(* the frame after them scrolls to the target and resolves.                *)
(***************************************************************************)
Clamp(v, max) == Max(0, Min(v, max))

\* window.scrollTo
ScrollTo(x, y) == [x |-> Clamp(x, MaxScrollX(doc)), y |-> Clamp(y, MaxScrollY(doc))]

Eased(start, target) == start + ((target - start) * 7) \div 8

AnimateScrollMid(c) ==
    /\ pc[c] = "scrolling"
    /\ ~loc[c].anim.mid
    /\ scroll' = ScrollTo(Eased(loc[c].anim.startX, loc[c].anim.x),
                          Eased(loc[c].anim.startY, loc[c].anim.y))
    /\ loc' = [loc EXCEPT ![c].anim.mid = TRUE]
    /\ UNCHANGED <<doc, now, isCapturing, captureId, pc, hist, outside>>

\* the capture taken as soon as the scroll animation is over
SkipStabilityWait(c, l, h, pageYOffset) == captureVisibleArea(c, l, h, l.i)

\* waitForContentStable up to the first frame of waitForScrollComplete
waitForContentStable(c, l, h, pageYOffset) ==
    Suspend(c, [l EXCEPT !.lastScrollY = pageYOffset, !.stableCount = 0,
                         !.samples = <<>>],
            h, "stabilizing")

AnimateScrollEnd(c) ==
    /\ pc[c] = "scrolling"
    /\ scroll' = ScrollTo(loc[c].anim.x, loc[c].anim.y)
    /\ UNCHANGED <<doc, now, outside>>
    /\ IF loc[c].phase = "section"
       THEN waitForContentStable(c, loc[c], hist[c], scroll'.y)
       ELSE AfterRestore(c, loc[c], hist[c])

(***************************************************************************)
(* waitForScrollComplete: one checkStability frame.  After the third       *)
(* stable sample waitForImages collects the incomplete images in the       *)
(* viewport; with none the settle delay starts.                            *)
(***************************************************************************)
\* The scroll offsets at the last StableChecks frames of the wait, s the
\* newest: what the page showed when checkStability read window.pageYOffset.
Sampled(samples, s) ==
    IF Len(samples) < StableChecks THEN Append(samples, s)
    ELSE Append(Tail(samples), s)

\* checkStability that requests no further frame: it runs once
CheckStabilityOnce(c) ==
    /\ pc[c] = "stabilizing"
    /\ loc[c].samples = <<>>
    /\ UNCHANGED <<doc, scroll, now, outside>>
    /\ Suspend(c, [loc[c] EXCEPT !.samples = Sampled(@, scroll),
                                 !.stableCount = @ + 1],
               hist[c], "stabilizing")

CheckStability(c) ==
    /\ pc[c] = "stabilizing"
    /\ UNCHANGED <<doc, scroll, now, outside>>
    /\ LET l == [loc[c] EXCEPT !.samples = Sampled(@, scroll)]
       IN  IF scroll.y = l.lastScrollY
           THEN IF l.stableCount + 1 >= StableChecks
                THEN \E n \in 0..MaxImages :
                        Suspend(c, [l EXCEPT !.stableCount = @ + 1, !.images = n],
                                hist[c], IF n = 0 THEN "settling" ELSE "images")
                ELSE Suspend(c, [l EXCEPT !.stableCount = @ + 1],
                             hist[c], "stabilizing")
           ELSE Suspend(c, [l EXCEPT !.stableCount = 0,
                                     !.lastScrollY = scroll.y],
                        hist[c], "stabilizing")

\* Between two frames of the wait the page is scrolled by something other
\* than the engine: the user, a script, a smooth scroll still under way.
PageScrolled ==
    /\ \E c \in Calls : pc[c] = "stabilizing"
    /\ \E dx, dy \in -1..1 :
          /\ scroll' = ScrollTo(scroll.x + dx, scroll.y + dy)
          /\ scroll' # scroll
    /\ UNCHANGED <<doc, now, isCapturing, captureId, pc, loc, hist, outside>>

\* waitForImages: an image loads, errors, or its 2000 ms timer fires
ImageSettled(c) ==
    /\ pc[c] = "images"
    /\ UNCHANGED <<doc, scroll, now, outside>>
    /\ Suspend(c, [loc[c] EXCEPT !.images = @ - 1], hist[c],
               IF loc[c].images = 1 THEN "settling" ELSE "images")

\* img.onload = img.onerror: the image loads or fails to
ImgEvent(c) == ImageSettled(c)

\* waitForImages without its timer
NoTimeout(c) == FALSE

\* the setTimeout of 2000 ms fires first
ImgTimeout(c) == ImageSettled(c)

\* sleep(scrollDelay) is over: the section is captured
SleepDone(c) ==
    /\ pc[c] = "settling"
    /\ UNCHANGED <<doc, scroll, now, outside>>
    /\ captureVisibleArea(c, loc[c], hist[c], loc[c].i)

(***************************************************************************)
(* The answer to 'captureTab'.  A raster is modelled by the scroll offset  *)
(* it shows.                                                               *)
(***************************************************************************)
Raster == [x |-> scroll.x, y |-> scroll.y]

\* the scroll restored on success only
FailWithoutRestore(c, l, h) ==
    Reject(c, l, [h EXCEPT !.failedAt = l.i], ErrCaptureTab)

\* the failed section skipped, the loop going on
FailAndContinue(c, l, h) ==
    SectionLoop(c, [l EXCEPT !.i = @ + 1], [h EXCEPT !.failedAt = l.i])

\* the failed section asked for again
RetrySection(c, l, h) == captureVisibleArea(c, l, h, l.i)

\* what captureWithScrolling does with a failed section capture
OnSectionFailure(c, l, h) ==
    RestoreScroll(c, [l EXCEPT !.thrown = ErrCaptureTab],
                  [h EXCEPT !.failedAt = l.i])

\* i++ skipping a section
SkipIndex(i) == i + 2

\* i++ of the for loop
NextIndex(i) == i + 1

\* the progress of the section not yet counted
ProgressDoneBefore(i) == i

\* updateProgress((i + 1) / strategy.sections.length): the numerator
ProgressDone(i) == i + 1

\* the single capture drawn on a canvas of the size of the page
SingleCaptureOnCanvas(analysis, raster) ==
    [width |-> analysis.page.width, height |-> analysis.page.height,
     drawn |-> << [data |-> raster, x |-> 0, y |-> 0] >>]

\* processResult with one capture: imageData is the raster as it came, the
\* picture of the viewport
SingleCapture(analysis, raster) ==
    [width |-> analysis.viewport.width, height |-> analysis.viewport.height,
     drawn |-> << [data |-> raster, x |-> 0, y |-> 0] >>]

CaptureTabSucceeded(c) ==
    /\ pc[c] = "capturing"
    /\ UNCHANGED <<doc, scroll, now, outside>>
    /\ IF loc[c].strategy.type = "viewport"
       THEN Resolve(c, loc[c], hist[c], "single",
                    SingleCapture(loc[c].analysis, Raster))
       ELSE LET section == loc[c].strategy.sections[loc[c].i + 1]
                n == Len(loc[c].strategy.sections)
                l == [loc[c] EXCEPT
                        !.captures = Append(@, [data |-> Raster, section |-> section]),
                        !.i = NextIndex(@)]
                h == [hist[c] EXCEPT
                        !.progress = Append(@, [done |-> ProgressDone(loc[c].i), of |-> n,
                                                captureId |-> captureId])]
            IN  SectionLoop(c, l, h)

CaptureTabFailed(c) ==
    /\ pc[c] = "capturing"
    /\ UNCHANGED <<doc, scroll, now, outside>>
    /\ IF loc[c].strategy.type = "viewport"
       THEN Reject(c, loc[c], hist[c], ErrCaptureTab)
       ELSE OnSectionFailure(c, loc[c], hist[c])

(***************************************************************************)
(* stitchImages: one loadImage settles.                                    *)
(***************************************************************************)
\* every capture drawn at the origin of the canvas
drawImageAtOrigin(capture) ==
    [data |-> capture.data, x |-> 0, y |-> 0]

\* ctx.drawImage(img, section.x, section.y)
drawImage(capture) ==
    [data |-> capture.data, x |-> capture.section.x, y |-> capture.section.y]

ImageLoaded(c) ==
    /\ pc[c] = "stitching"
    /\ UNCHANGED <<doc, scroll, now, outside>>
    /\ LET capture == loc[c].captures[loc[c].k]
           l == [loc[c] EXCEPT
                   !.canvas.drawn = Append(@, drawImage(capture)),
                   !.k = @ + 1]
       IN  IF loc[c].k < Len(loc[c].captures)
           THEN Suspend(c, l, hist[c], "stitching")
           ELSE Resolve(c, l, hist[c], "stitched", l.canvas)

\* a failed loadImage that also sends the page back to its top
ImageLoadFailedScrollsTop(c) ==
    /\ pc[c] = "stitching"
    /\ scroll' = [x |-> 0, y |-> 0]
    /\ UNCHANGED <<doc, now, outside>>
    /\ Reject(c, loc[c], hist[c], ErrLoadImage)

ImageLoadFailed(c) ==
    /\ pc[c] = "stitching"
    /\ UNCHANGED <<doc, scroll, now, outside>>
    /\ Reject(c, loc[c], hist[c], ErrLoadImage)

Next ==
    \E c \in Calls :
        \/ captureFullPage(c)
        \/ Dispatch(c)
        \/ AnimateScrollMid(c)
        \/ AnimateScrollEnd(c)
        \/ CheckStability(c)
        \/ ImgEvent(c)
        \/ ImgTimeout(c)
        \/ SleepDone(c)
        \/ CaptureTabSucceeded(c)
        \/ CaptureTabFailed(c)
        \/ ImageLoaded(c)
        \/ ImageLoadFailed(c)

Spec == Init /\ [][Next]_vars

(***************************************************************************)
(* The selector and the planner on the wider inputs: one call, followed up *)
(* to the switch of captureFullPage.                                       *)
(***************************************************************************)
PlanInit ==
    /\ doc \in PlanDocuments
    /\ scroll = [x |-> 0, y |-> 0]
    /\ EngineInit

PlanNext ==
    \/ captureFullPage(1)
    \/ Dispatch(1)

PlanSpec == PlanInit /\ [][PlanNext]_vars

(***************************************************************************)
(* One call followed through its whole session, no other call arriving.    *)
(***************************************************************************)
SessionNext ==
    \/ captureFullPage(1)
    \/ Dispatch(1)
    \/ AnimateScrollMid(1)
    \/ AnimateScrollEnd(1)
    \/ CheckStability(1)
    \/ ImgEvent(1)
    \/ ImgTimeout(1)
    \/ SleepDone(1)
    \/ CaptureTabSucceeded(1)
    \/ CaptureTabFailed(1)
    \/ ImageLoaded(1)
    \/ ImageLoadFailed(1)

SessionSpec == Init /\ [][SessionNext]_vars

\* The same with the timers of waitForImages firing: a timer that is set
\* fires once its 2000 ms are over, whatever the images do.
TimedSpec == SessionSpec /\ WF_vars(ImgTimeout(1))

\* The same with everything the call waits for arriving: the continuation
\* after analyzePage, the animation frames, the timers of waitForImages and
\* of sleep, the answer to each 'captureTab' request, and the load or error
\* event of each data URL the stitcher loads.  The frame that ends the
\* scroll animation is the one requested after its 300 ms are over.
EventLoopRuns ==
    /\ WF_vars(Dispatch(1))
    /\ WF_vars(AnimateScrollEnd(1))
    /\ WF_vars(CheckStability(1))
    /\ WF_vars(ImgTimeout(1))
    /\ WF_vars(SleepDone(1))
    /\ WF_vars(CaptureTabSucceeded(1) \/ CaptureTabFailed(1))
    /\ WF_vars(ImageLoaded(1) \/ ImageLoadFailed(1))

LiveSpec == SessionSpec /\ EventLoopRuns

(***************************************************************************)
(* One call followed to the end of its first waitForScrollComplete, on a   *)
(* page that is scrolled from outside while the call waits.  The pages are *)
(* those that scroll by MaxDrift at most.                                  *)
(***************************************************************************)
StableInit ==
    /\ doc \in { d \in SessionDocuments :
                    MaxScrollX(d) + MaxScrollY(d) <= MaxDrift }
    /\ scroll \in InitialOffsets(doc)
    /\ EngineInit

StableNext ==
    \/ captureFullPage(1)
    \/ Dispatch(1)
    \/ AnimateScrollMid(1)
    \/ AnimateScrollEnd(1)
    \/ CheckStability(1)
    \/ PageScrolled

StableSpec == StableInit /\ [][StableNext]_vars

(***************************************************************************)
(* Vocabulary of the properties.                                           *)
(***************************************************************************)
Settled == {"resolved", "rejected"}

Active(c) == pc[c] \notin {"idle"} \cup Settled

\* the call is past the switch on strategy.type
Dispatched(c) == loc[c].strategy.type # "none"

\* the Viewport condition, on the live document
DocFits ==
    /\ 10 * doc.height <= 11 * doc.innerHeight
    /\ 10 * doc.width <= 11 * doc.innerWidth

SeqToSet(q) == { q[i] : i \in 1..Len(q) }

(***************************************************************************)
(* C1.  At most one captureFullPage call is between the isCapturing guard  *)
(* and its exit: two capture sessions are never active at the same time.   *)
(***************************************************************************)
C1_OneSessionAtATime ==
    /\ Cardinality({ c \in Calls : Active(c) }) <= 1
    /\ isCapturing <=> (\E c \in Calls : Active(c))

\* a second call arrived while a session was running, and a session is running
C1_Witness ==
    \E c, d \in Calls :
        /\ pc[c] = "capturing"
        /\ hist[d].error = ErrInProgress

(***************************************************************************)
(* C2.  A call made while isCapturing is true rejects at once with         *)
(* 'Capture already in progress' and changes nothing else: not the scroll  *)
(* offset, not the flag or the id, not the running session, no section is  *)
(* scrolled to or captured; and it is not taken up again later.            *)
(***************************************************************************)
C2_RejectedCallHasNoEffect ==
    [][\A c \in Calls :
          /\ (pc[c] = "idle" /\ isCapturing /\ pc'[c] # "idle") =>
                /\ pc'[c] = "rejected"
                /\ hist'[c] = [hist[c] EXCEPT !.error = ErrInProgress]
                /\ scroll' = scroll
                /\ isCapturing'
                /\ captureId' = captureId
                /\ loc' = loc
                /\ \A d \in Calls \ {c} : pc'[d] = pc[d] /\ hist'[d] = hist[d]
          /\ (pc[c] = "rejected" /\ hist[c].error = ErrInProgress) =>
                /\ pc'[c] = "rejected"
                /\ hist'[c] = hist[c]
                /\ loc'[c] = loc[c]
      ]_vars

\* a call was rejected in the middle of a session that went on to its second section
C2_Witness ==
    \E c, d \in Calls :
        /\ pc[d] = "rejected"
        /\ hist[d].error = ErrInProgress
        /\ hist[d].scrolledTo = <<>>
        /\ hist[d].captureTabs = <<>>
        /\ Active(c)
        /\ loc[c].i = 1
        /\ captureId = hist[c].captureId

(***************************************************************************)
(* C3.  Whenever a call resolves or rejects, the scroll offset is the one  *)
(* the page had when the call started, whichever section failed: the       *)
(* offset is restored before the call settles.                             *)
(***************************************************************************)
C3_ScrollRestoredOnExit ==
    [][\A c \in Calls :
          (pc[c] \notin Settled /\ pc'[c] \in Settled) =>
              scroll' = IF pc[c] = "idle" THEN scroll ELSE hist[c].startScroll
      ]_vars

\* a session that started scrolled down failed at a section other than its first
C3_Witness ==
    \E c \in Calls :
        /\ pc[c] = "rejected"
        /\ hist[c].failedAt >= 1
        /\ hist[c].startScroll.y > 0
        /\ hist[c].startScroll.y # loc[c].strategy.sections[hist[c].failedAt + 1].y
        /\ scroll = hist[c].startScroll

(***************************************************************************)
(* C4.  An error in main section k aborts the session: no section after k  *)
(* is scrolled to or captured, nothing is stitched, no region and no frame *)
(* capture is tried, and the call rejects with that error.                 *)
(***************************************************************************)
C4_MainLoopErrorAborts ==
    \A c \in Calls :
        hist[c].failedAt >= 0 =>
            /\ \A j \in SeqToSet(hist[c].scrolledTo) : j <= hist[c].failedAt
            /\ \A j \in SeqToSet(hist[c].captureTabs) : j <= hist[c].failedAt
            /\ pc[c] = "scrolling" => Len(loc[c].captures) = hist[c].failedAt
            /\ ~hist[c].stitched
            /\ hist[c].regionAttempts = <<>>
            /\ hist[c].frameAttempts = <<>>
            /\ pc[c] \in {"scrolling", "rejected"}
            /\ pc[c] = "scrolling" => loc[c].phase = "restore"
            /\ pc[c] = "rejected" => hist[c].error = ErrCaptureTab

\* a Complex session with regions and frames to capture failed at its middle section
C4_Witness ==
    \E c \in Calls :
        /\ pc[c] = "rejected"
        /\ loc[c].strategy.type = "complex"
        /\ Len(loc[c].strategy.sections) = 3
        /\ hist[c].failedAt = 1
        /\ Len(loc[c].strategy.scrollableElements) > 0
        /\ \E i \in 1..Len(loc[c].strategy.iframes) : loc[c].strategy.iframes[i].accessible

(***************************************************************************)
(* C5.  In a Complex capture a failing region or frame capture never fails *)
(* the session: it goes on to the stitcher, whose capture list starts with *)
(* every main-section capture in section order, each showing its section,  *)
(* and the call never rejects with the error of a secondary capture.       *)
(***************************************************************************)
C5_SecondaryFailuresContained ==
    \A c \in Calls :
        loc[c].strategy.type = "complex" =>
            /\ hist[c].error # ErrNotAFunction
            /\ hist[c].swallowed > 0 =>
                  /\ hist[c].stitched
                  /\ pc[c] \in {"stitching", "resolved", "rejected"}
                  /\ pc[c] = "rejected" => hist[c].error = ErrLoadImage
            /\ hist[c].stitched =>
                  /\ Len(hist[c].stitchInput) >= Len(loc[c].strategy.sections)
                  /\ \A i \in 1..Len(loc[c].strategy.sections) :
                        /\ hist[c].stitchInput[i].section = loc[c].strategy.sections[i]
                        /\ hist[c].stitchInput[i].data =
                              [x |-> loc[c].strategy.sections[i].x,
                               y |-> loc[c].strategy.sections[i].y]

\* a Complex session whose region and frame captures all failed has resolved
C5_Witness ==
    \E c \in Calls :
        /\ pc[c] = "resolved"
        /\ loc[c].strategy.type = "complex"
        /\ Len(hist[c].regionAttempts) > 0
        /\ Len(hist[c].frameAttempts) > 0
        /\ hist[c].swallowed = Len(hist[c].regionAttempts) + Len(hist[c].frameAttempts)
        /\ Len(hist[c].stitchInput) = 3

(***************************************************************************)
(* C6.  On every page within the 10% slack of the viewport in both         *)
(* dimensions the strategy is Viewport, whatever its regions and frames,   *)
(* and a Viewport session asks for exactly one viewport capture, scrolls   *)
(* to no section and stitches nothing.                                     *)
(***************************************************************************)
C6_ViewportWhenPageFits ==
    \A c \in Calls :
        /\ (Dispatched(c) /\ DocFits) => loc[c].strategy.type = "viewport"
        /\ loc[c].strategy.type = "viewport" =>
              /\ hist[c].captureTabs = << -1 >>
              /\ hist[c].scrolledTo = <<>>
              /\ ~hist[c].stitched

\* a page taller and wider than the viewport, inside the slack, with 4 regions
C6_Witness ==
    \E c \in Calls :
        /\ pc[c] = "resolved"
        /\ doc.height > doc.innerHeight
        /\ doc.width > doc.innerWidth
        /\ doc.regions > 3
        /\ loc[c].strategy.type = "viewport"
        /\ Len(hist[c].captureTabs) = 1

(***************************************************************************)
(* C7.  On every page outside the Viewport condition the strategy is       *)
(* Complex exactly if there are more than 3 scrollable regions or more     *)
(* than 2 frames, and Scroll otherwise.                                    *)
(***************************************************************************)
C7_ComplexIffManyRegionsOrFrames ==
    \A c \in Calls :
        (Dispatched(c) /\ ~DocFits) =>
            IF doc.regions > 3 \/ Len(doc.frames) > 2
            THEN loc[c].strategy.type = "complex"
            ELSE loc[c].strategy.type = "scroll"

\* exactly 3 regions and 2 frames: still Scroll
C7_Witness ==
    /\ Dispatched(1)
    /\ ~DocFits
    /\ doc.regions = 3
    /\ Len(doc.frames) = 2
    /\ loc[1].strategy.type = "scroll"

(***************************************************************************)
(* C8.  A Complex strategy carries every scrollable region, and the frames *)
(* of the page if captureIframes is set; without it the frame list is      *)
(* empty and the session tries no frame capture.                           *)
(***************************************************************************)
C8_ComplexCarriesRegionsAndOptedFrames ==
    \A c \in Calls :
        loc[c].strategy.type = "complex" =>
            /\ loc[c].strategy.scrollableElements = [i \in 1..doc.regions |-> i]
            /\ loc[c].options.captureIframes =>
                  /\ Len(loc[c].strategy.iframes) = Len(doc.frames)
                  /\ \A i \in 1..Len(doc.frames) :
                        loc[c].strategy.iframes[i].element = i
            /\ ~loc[c].options.captureIframes =>
                  /\ loc[c].strategy.iframes = <<>>
                  /\ hist[c].frameAttempts = <<>>

\* a page with 3 frames captured to the end with captureIframes off
C8_Witness ==
    \E c \in Calls :
        /\ pc[c] = "resolved"
        /\ loc[c].strategy.type = "complex"
        /\ ~loc[c].options.captureIframes
        /\ Len(doc.frames) = 3
        /\ Len(hist[c].regionAttempts) = doc.regions
        /\ hist[c].frameAttempts = <<>>

(***************************************************************************)
(* C9.  The switch of captureFullPage knows every strategy the selector    *)
(* returns: no call rejects with 'Unknown capture strategy'.               *)
(***************************************************************************)
C9_UnknownStrategyUnreachable ==
    \A c \in Calls :
        /\ hist[c].error # ErrUnknownStrategy
        /\ pc[c] \notin {"idle", "analyzed"} =>
              \/ loc[c].strategy.type \in {"viewport", "scroll", "complex"}
              \/ hist[c].error = ErrInProgress

\* a Scroll strategy went through the switch and its first scroll has started
C9_Witness ==
    /\ pc[1] = "scrolling"
    /\ loc[1].strategy.type = "scroll"
    /\ loc[1].strategy.scrollDirection = "horizontal"
    /\ hist[1].scrolledTo = <<0>>

(***************************************************************************)
(* C10.  For page.height > viewport.height the plan has                    *)
(* ceil(page.height / stride) sections, stride = viewport.height -         *)
(* floor(viewport.height / 10), and section i is                           *)
(* (0, min(i * stride, page.height - viewport.height)) of viewport size;   *)
(* otherwise it is the one section (0, 0) of viewport size.  Viewport      *)
(* 800 x 600 on a page 800 x 1800 gives 4 sections, the last at y = 1200.  *)
(***************************************************************************)
C10_Overlap == CHOOSE o \in 0..doc.innerHeight :
                  10 * o <= doc.innerHeight /\ doc.innerHeight < 10 * (o + 1)

C10_Stride == doc.innerHeight - C10_Overlap

C10_Count == CHOOSE n \in 1..doc.height :
                  (n - 1) * C10_Stride < doc.height /\ doc.height <= n * C10_Stride

C10_SectionPlan ==
    \A c \in Calls :
        (Dispatched(c) /\ loc[c].strategy.type # "viewport") =>
            LET sections == loc[c].strategy.sections
            IN  /\ IF doc.height > doc.innerHeight
                   THEN /\ Len(sections) = C10_Count
                        /\ \A i \in 0..(C10_Count - 1) :
                              sections[i + 1] =
                                 [index |-> i, x |-> 0,
                                  y |-> Min(i * C10_Stride,
                                            doc.height - doc.innerHeight),
                                  width |-> doc.innerWidth,
                                  height |-> doc.innerHeight]
                   ELSE sections = << [index |-> 0, x |-> 0, y |-> 0,
                                       width |-> doc.innerWidth,
                                       height |-> doc.innerHeight] >>
                /\ (doc.innerWidth = 800 /\ doc.innerHeight = 600
                         /\ doc.height = 1800) =>
                      /\ Len(sections) = 4
                      /\ sections[4].y = 1200

\* the plan of the 800 x 1800 page in an 800 x 600 viewport
C10_Witness ==
    /\ Dispatched(1)
    /\ doc.innerWidth = 800 /\ doc.innerHeight = 600
    /\ doc.width = 800 /\ doc.height = 1800
    /\ Len(loc[1].strategy.sections) = 4
    /\ loc[1].strategy.sections[3].y = 1080

(***************************************************************************)
(* The plan of a dispatched Scroll or Complex strategy, and the sizes it   *)
(* is stated against.                                                      *)
(***************************************************************************)
Planned(c) == Dispatched(c) /\ loc[c].strategy.type # "viewport"

Plan(c) == loc[c].strategy.sections

VH == doc.innerHeight
VW == doc.innerWidth
PH == doc.height
PW == doc.width

\* viewport.height - floor(viewport.height * 0.1)
Stride == VH - (VH \div 10)

(***************************************************************************)
(* C11 as claimed: for page.height > viewport.height the plan has          *)
(* ceil(page.height / (viewport.height * 0.9)) sections.                   *)
(***************************************************************************)
C11_CountByNineTenths ==
    \A c \in Calls :
        (Planned(c) /\ PH > VH) =>
            /\ 9 * VH * (Len(Plan(c)) - 1) < 10 * PH
            /\ 10 * PH <= 9 * VH * Len(Plan(c))

(***************************************************************************)
(* C11 as amended: for page.height > viewport.height the plan has          *)
(* ceil(page.height / stride) sections, stride = viewport.height -         *)
(* floor(viewport.height * 0.1); that is ceil(page.height /                *)
(* (viewport.height * 0.9)) when viewport.height is a multiple of 10 and   *)
(* never more than it otherwise.                                           *)
(***************************************************************************)
C11_CountByStride ==
    \A c \in Calls :
        (Planned(c) /\ PH > VH) =>
            /\ Stride * (Len(Plan(c)) - 1) < PH
            /\ PH <= Stride * Len(Plan(c))
            /\ 9 * VH * (Len(Plan(c)) - 1) < 10 * PH
            /\ VH % 10 = 0 => 10 * PH <= 9 * VH * Len(Plan(c))

\* viewport height 11, page height 20: 2 sections, where 20 / 9.9 rounds up to 3
C11_Witness ==
    /\ Planned(1)
    /\ VH = 11 /\ PH = 20
    /\ Len(Plan(1)) = 2

(***************************************************************************)
(* C12.  For page.height = H > viewport.height the intervals               *)
(* [y_i, y_i + viewport.height) of the planned sections cover [0, H] with  *)
(* no gap: section 0 starts at 0, each next section starts no later than   *)
(* the previous one ends, the last ends at H; and no section has           *)
(* y > H - viewport.height.                                                *)
(***************************************************************************)
C12_CoversHeightWithoutGap ==
    \A c \in Calls :
        (Planned(c) /\ PH > VH) =>
            LET sections == Plan(c)
                n == Len(sections)
            IN  /\ n >= 1
                /\ sections[1].y = 0
                /\ \A i \in 1..n : sections[i].height = VH
                /\ \A i \in 1..(n - 1) :
                      /\ sections[i].y <= sections[i + 1].y
                      /\ sections[i + 1].y <= sections[i].y + VH
                /\ sections[n].y + VH = PH
                /\ \A i \in 1..n : sections[i].y <= PH - VH

\* a plan of three or more sections whose last one was pulled back to H - vh
C12_Witness ==
    /\ Planned(1)
    /\ PH > VH
    /\ Len(Plan(1)) >= 3
    /\ Plan(1)[Len(Plan(1))].y < (Len(Plan(1)) - 1) * Stride
    /\ Plan(1)[Len(Plan(1))].y = PH - VH

\* the section rectangle s holds the pixel (px, py)
Holds(s, px, py) ==
    /\ s.x <= px /\ px < s.x + s.width
    /\ s.y <= py /\ py < s.y + s.height

(***************************************************************************)
(* C13 as claimed: the union of the planned section rectangles contains    *)
(* the whole page rectangle, in both dimensions.                           *)
(***************************************************************************)
C13_CoversPage ==
    \A c \in Calls :
        Planned(c) =>
            \A px \in 0..(PW - 1) : \A py \in 0..(PH - 1) :
                \E i \in 1..Len(Plan(c)) : Holds(Plan(c)[i], px, py)

(***************************************************************************)
(* C13 as amended: the union of the planned section rectangles contains    *)
(* the page over its full height but only over the columns                 *)
(* [0, viewport.width): every row of the page lies in a section that       *)
(* spans exactly those columns, so the whole page rectangle is contained   *)
(* exactly when page.width <= viewport.width.                              *)
(***************************************************************************)
C13_CoversHeightAtViewportWidth ==
    \A c \in Calls :
        Planned(c) =>
            LET sections == Plan(c)
            IN  /\ \A py \in 0..(PH - 1) :
                      \E i \in 1..Len(sections) :
                          /\ sections[i].x = 0
                          /\ sections[i].width = VW
                          /\ sections[i].y <= py
                          /\ py < sections[i].y + sections[i].height
                /\ \A i \in 1..Len(sections) :
                      \A px \in VW..(PW - 1) : \A py \in 0..(PH - 1) :
                          ~Holds(sections[i], px, py)

\* a page wider and higher than the viewport: its right-hand columns are in
\* no section, its bottom row is
C13_Witness ==
    /\ Planned(1)
    /\ PW > VW /\ PH > VH
    /\ Len(Plan(1)) >= 2
    /\ \A i \in 1..Len(Plan(1)) : ~Holds(Plan(1)[i], PW - 1, PH - 1)
    /\ \E i \in 1..Len(Plan(1)) : Holds(Plan(1)[i], 0, PH - 1)

(***************************************************************************)
(* C14 as claimed: every planned section has                               *)
(* x <= page.width - viewport.width and y <= page.height - viewport.height,*)
(* the analysis's scroll.maxX and scroll.maxY, also on pages shorter or    *)
(* narrower than the viewport.                                             *)
(***************************************************************************)
C14_OriginWithinMaxScroll ==
    \A c \in Calls :
        Planned(c) =>
            \A i \in 1..Len(Plan(c)) :
                /\ Plan(c)[i].x <= PW - VW
                /\ Plan(c)[i].y <= PH - VH

(***************************************************************************)
(* C14 as amended: every planned section has                               *)
(* 0 <= x <= max(0, page.width - viewport.width) and                       *)
(* 0 <= y <= max(0, page.height - viewport.height), so no section asks for *)
(* a scroll beyond what the page can scroll; x <= scroll.maxX holds when   *)
(* page.width >= viewport.width and y <= scroll.maxY when                  *)
(* page.height >= viewport.height, and on a narrower or shorter page the   *)
(* analysis's maxX or maxY is negative and the one section is at 0.        *)
(***************************************************************************)
C14_OriginWithinScrollRange ==
    \A c \in Calls :
        Planned(c) =>
            LET maxX == loc[c].analysis.scroll.maxX
                maxY == loc[c].analysis.scroll.maxY
            IN  /\ maxX = PW - VW
                /\ maxY = PH - VH
                /\ \A i \in 1..Len(Plan(c)) :
                      /\ 0 <= Plan(c)[i].x
                      /\ Plan(c)[i].x <= Max(0, PW - VW)
                      /\ 0 <= Plan(c)[i].y
                      /\ Plan(c)[i].y <= Max(0, PH - VH)
                      /\ PW >= VW => Plan(c)[i].x <= maxX
                      /\ PH >= VH => Plan(c)[i].y <= maxY
                      /\ PW < VW => (Plan(c)[i].x = 0 /\ maxX < 0)
                      /\ PH < VH => (Plan(c)[i].y = 0 /\ maxY < 0)

\* a page shorter than the viewport (and too wide to fit it), planned as one
\* section at (0, 0) while scroll.maxY is negative
C14_Witness ==
    /\ Planned(1)
    /\ PH < VH
    /\ Len(Plan(1)) = 1
    /\ Plan(1)[1].x = 0 /\ Plan(1)[1].y = 0
    /\ loc[1].analysis.scroll.maxY < 0
    /\ Plan(1)[1].y > PH - VH

\* rows shared by planned sections i and i + 1
Shared(c, i) == Plan(c)[i].y + VH - Plan(c)[i + 1].y

(***************************************************************************)
(* C15 as claimed: in a plan of more than one section every pair of        *)
(* consecutive sections shares exactly floor(viewport.height * 0.1) rows.  *)
(***************************************************************************)
C15_FixedOverlap ==
    \A c \in Calls :
        (Planned(c) /\ Len(Plan(c)) > 1) =>
            \A i \in 1..(Len(Plan(c)) - 1) : Shared(c, i) = VH \div 10

(***************************************************************************)
(* C15 as amended: in a plan of more than one section every pair of        *)
(* consecutive sections shares at least floor(viewport.height * 0.1) rows, *)
(* and exactly that many when, and only when, the later section of the     *)
(* pair is not pulled back to page.height - viewport.height (its           *)
(* index * stride <= page.height - viewport.height).                       *)
(***************************************************************************)
C15_OverlapAtLeastTenth ==
    \A c \in Calls :
        (Planned(c) /\ Len(Plan(c)) > 1) =>
            \A i \in 1..(Len(Plan(c)) - 1) :
                /\ Shared(c, i) >= VH \div 10
                /\ Shared(c, i) <= VH
                /\ (Shared(c, i) = VH \div 10) <=> (i * Stride <= PH - VH)

\* 800 x 600 on 800 x 1800: sections at 0, 540, 1080, 1200 share 60, 60 and
\* 480 rows
C15_Witness ==
    /\ Planned(1)
    /\ VH = 600 /\ PH = 1800
    /\ Len(Plan(1)) = 4
    /\ Shared(1, 1) = 60 /\ Shared(1, 2) = 60 /\ Shared(1, 3) = 480

\* the analysis with its page as wide as w
OfWidth(analysis, w) == [analysis EXCEPT !.page.width = w]

(***************************************************************************)
(* C16.  Every planned section has x = 0 and width = viewport.width, also  *)
(* on pages wider than the viewport; the section list does not depend on   *)
(* the page width, hence not on the declared scroll axis (vertical if      *)
(* page.height > page.width, else horizontal), and is the same for the     *)
(* Scroll and the Complex strategy of one analysis.                        *)
(***************************************************************************)
C16_NoHorizontalTiling ==
    \A c \in Calls :
        Planned(c) =>
            LET analysis == loc[c].analysis
                strategy == loc[c].strategy
            IN  /\ \A i \in 1..Len(strategy.sections) :
                      /\ strategy.sections[i].x = 0
                      /\ strategy.sections[i].width = VW
                      /\ strategy.sections[i].index = i - 1
                /\ strategy.type = "scroll" =>
                      strategy.scrollDirection =
                         IF PH > PW THEN "vertical" ELSE "horizontal"
                /\ strategy.sections = calculateSections(OfWidth(analysis, 1))
                /\ strategy.sections
                      = calculateSections(OfWidth(analysis, PH + VW + 1))
                /\ strategy.sections = ScrollStrategy(analysis).sections
                /\ \A options \in CaptureOptions :
                      strategy.sections
                         = ComplexStrategy(analysis, options).sections

\* a Scroll strategy declared horizontal on a page wider than the viewport:
\* its sections step down the page at viewport width
C16_Witness ==
    /\ Planned(1)
    /\ loc[1].strategy.type = "scroll"
    /\ loc[1].strategy.scrollDirection = "horizontal"
    /\ PW > VW
    /\ Len(Plan(1)) >= 2
    /\ Plan(1)[2].x = 0 /\ Plan(1)[2].y > 0 /\ Plan(1)[2].width = VW

(***************************************************************************)
(* C17.  The capture loop takes the sections in ascending index order and  *)
(* captures each exactly once: at every point of a session the capture     *)
(* list is the prefix of the planned sections in order                     *)
(* (captures[i].section.index = i, counting from 0), one request was sent  *)
(* per section so far, and on success the stitcher was given exactly one   *)
(* capture per planned section.                                            *)
(***************************************************************************)
C17_CapturesArePrefixInOrder ==
    \A c \in Calls :
        LET captures == loc[c].captures
            sections == loc[c].strategy.sections
        IN  /\ Len(captures) <= Len(sections)
            /\ \A k \in 1..Len(captures) :
                  /\ captures[k].section = sections[k]
                  /\ captures[k].section.index = k - 1
            /\ (Active(c) /\ Planned(c)) =>
                  /\ \A k \in 1..Len(hist[c].captureTabs) :
                        hist[c].captureTabs[k] = k - 1
                  /\ \A k \in 1..Len(hist[c].scrolledTo) :
                        hist[c].scrolledTo[k] = k - 1
                  /\ loc[c].thrown = Null => loc[c].i = Len(captures)
            /\ hist[c].stitched =>
                  /\ Len(hist[c].stitchInput) = Len(sections)
                  /\ \A k \in 1..Len(sections) :
                        hist[c].stitchInput[k].section = sections[k]
                  /\ hist[c].captureTabs = [k \in 1..Len(sections) |-> k - 1]
            /\ (pc[c] = "resolved" /\ Planned(c)) => hist[c].stitched

\* a session of four sections that succeeded, each section requested once
C17_Witness ==
    \E c \in Calls :
        /\ pc[c] = "resolved"
        /\ Len(loc[c].strategy.sections) = 4
        /\ Len(hist[c].stitchInput) = 4
        /\ hist[c].captureTabs = <<0, 1, 2, 3>>

\* the answers to 'captureTab' the session has had, and its open requests
Answered(c) ==
    Len(loc[c].captures) + (IF hist[c].failedAt >= 0 THEN 1 ELSE 0)

Outstanding(c) == Len(hist[c].captureTabs) - Answered(c)

\* pc values of waitForContentStable and of the request that follows it
Waiting == {"stabilizing", "images", "settling"}

C18_OneStepAtATime ==
    \A c \in Calls :
        Active(c) =>
            /\ Outstanding(c) \in {0, 1}
            /\ Outstanding(c) = 1 <=> pc[c] = "capturing"
            /\ Planned(c) =>
                  LET ahead == Len(hist[c].scrolledTo) - Len(hist[c].captureTabs)
                  IN  /\ ahead \in {0, 1}
                      /\ ahead = 1 <=>
                            \/ pc[c] \in Waiting
                            \/ pc[c] = "scrolling" /\ loc[c].phase = "section"

C18_ScrollHeldUntilRaster ==
    \A c \in Calls :
        /\ pc[c] \in Waiting \cup {"capturing"} => scroll' = scroll
        /\ (pc[c] = "capturing" /\ Planned(c)
              /\ Len(loc'[c].captures) = Len(loc[c].captures) + 1) =>
              LET capture == loc'[c].captures[Len(loc'[c].captures)]
              IN  /\ capture.data = [x |-> scroll.x, y |-> scroll.y]
                  /\ capture.data = ScrollTo(capture.section.x,
                                             capture.section.y)

(***************************************************************************)
(* C18.  The capture steps of a session are strictly sequential: a session *)
(* never has two scroll animations, two stability waits or two 'captureTab'*)
(* requests outstanding (a request is open only while the call waits for   *)
(* it, and a section's scroll and wait are over before its request), and   *)
(* the scroll offset does not change from the start of a section's         *)
(* stability wait to the arrival of its raster, which shows the section's  *)
(* offset.                                                                 *)
(***************************************************************************)
C18_StrictlySequential ==
    /\ []C18_OneStepAtATime
    /\ [][C18_ScrollHeldUntilRaster]_vars

\* the third section's request is open: its scroll and wait are over, two
\* rasters have arrived
C18_Witness ==
    \E c \in Calls :
        /\ pc[c] = "capturing"
        /\ Planned(c)
        /\ Len(loc[c].captures) = 2
        /\ Len(hist[c].captureTabs) = 3
        /\ Len(hist[c].scrolledTo) = 3
        /\ scroll = ScrollTo(loc[c].strategy.sections[3].x,
                             loc[c].strategy.sections[3].y)

(***************************************************************************)
(* C19.  A session of n main sections emits one progress event per         *)
(* completed main section and none for a failed one: the k-th event        *)
(* follows the k-th capture and carries k / n, so the fractions increase   *)
(* strictly within [0, 1], the last one of a successful session is 1, and  *)
(* every event carries the session's non-null captureId.                   *)
(***************************************************************************)
C19_ProgressPerCompletedSection ==
    \A c \in Calls :
        LET progress == hist[c].progress
            n == Len(loc[c].strategy.sections)
        IN  /\ \A k \in 1..Len(progress) :
                  /\ progress[k].done = k
                  /\ progress[k].of = n
                  /\ 0 <= progress[k].done /\ progress[k].done <= progress[k].of
                  /\ progress[k].captureId = hist[c].captureId
                  /\ progress[k].captureId # Null
            /\ (Active(c) /\ Planned(c)) => Len(progress) = Len(loc[c].captures)
            /\ hist[c].failedAt >= 0 => Len(progress) = hist[c].failedAt
            /\ hist[c].stitched =>
                  /\ Len(progress) = n
                  /\ progress[n].done = progress[n].of
            /\ loc[c].strategy.type \in {"none", "viewport"} => progress = <<>>

\* a session of four sections that succeeded, its last event 4/4, and
\* another whose third capture failed after two events, 2/4 the last
C19_Witness ==
    \E c, d \in Calls :
        /\ pc[c] = "resolved"
        /\ Len(hist[c].progress) = 4
        /\ hist[c].progress[4].done = 4 /\ hist[c].progress[4].of = 4
        /\ pc[d] = "rejected"
        /\ hist[d].failedAt = 2
        /\ Len(hist[d].progress) = 2
        /\ hist[d].progress[2].done = 2 /\ hist[d].progress[2].of = 4
        /\ hist[d].progress[2].captureId = hist[d].captureId
        /\ hist[d].captureId # hist[c].captureId

(***************************************************************************)
(* C20.  A frame whose accessible flag is false is recorded in the         *)
(* analysis but never captured: a frame capture is attempted only for      *)
(* frames with accessible = true.                                          *)
(***************************************************************************)
C20_OnlyAccessibleFramesTried ==
    \A c \in Calls :
        LET iframes == loc[c].analysis.iframes
            tried == hist[c].frameAttempts
        IN  /\ pc[c] # "idle" /\ loc[c].analysis # NoAnalysis =>
                  /\ Len(iframes) = Len(doc.frames)
                  /\ \A k \in 1..Len(iframes) :
                        /\ iframes[k].element = k
                        /\ iframes[k].accessible
                              = isIframeAccessible(doc.frames[k])
            /\ \A k \in 1..Len(tried) :
                  /\ tried[k].accessible
                  /\ tried[k] \in SeqToSet(iframes)
                  /\ doc.frames[tried[k].element] # "throwing"
            /\ \A k \in 1..Len(iframes) :
                  ~iframes[k].accessible => iframes[k] \notin SeqToSet(tried)

\* three frames recorded, the second not accessible; the session tried the
\* first and the third only
C20_Witness ==
    \E c \in Calls :
        /\ Len(loc[c].analysis.iframes) = 3
        /\ ~loc[c].analysis.iframes[2].accessible
        /\ Len(hist[c].frameAttempts) = 2
        /\ hist[c].frameAttempts[1].element = 1
        /\ hist[c].frameAttempts[2].element = 3

(***************************************************************************)
(* C21.  Whenever the stitcher runs, for any number of captures >= 1, the  *)
(* composite is exactly page.width x page.height as recorded in the        *)
(* session's analysis, whatever the viewport size and the section count.   *)
(***************************************************************************)
C21_CompositeHasPageSize ==
    \A c \in Calls :
        /\ pc[c] = "stitching" =>
              /\ Len(loc[c].captures) >= 1
              /\ loc[c].canvas.width = loc[c].analysis.page.width
              /\ loc[c].canvas.height = loc[c].analysis.page.height
              /\ loc[c].canvas.width = PW /\ loc[c].canvas.height = PH
        /\ (pc[c] = "resolved" /\ hist[c].stitched) =>
              /\ Len(hist[c].stitchInput) >= 1
              /\ hist[c].imageData.width = loc[c].analysis.page.width
              /\ hist[c].imageData.height = loc[c].analysis.page.height
              /\ hist[c].imageData.width = PW /\ hist[c].imageData.height = PH

\* a composite of four captures, three times as high as the viewport
C21_Witness ==
    \E c \in Calls :
        /\ pc[c] = "resolved"
        /\ Len(hist[c].stitchInput) = 4
        /\ hist[c].imageData.height = 3 * VH
        /\ hist[c].imageData.height = PH
        /\ hist[c].imageData.width = PW

(***************************************************************************)
(* C22 as claimed: the result has captureType = single if the session made *)
(* only one capture and captureType = stitched otherwise, for every        *)
(* strategy, also for a Scroll or Complex session of one section.          *)
(***************************************************************************)
C22_TypeByCaptureCount ==
    \A c \in Calls :
        pc[c] = "resolved" =>
            /\ hist[c].captureType \in {"single", "stitched"}
            /\ hist[c].captureType = "single" <=> Len(hist[c].captureTabs) = 1

(***************************************************************************)
(* C23.  A Viewport-strategy session (viewport 1024 x 768 on a page        *)
(* 1000 x 700, say) never changes the page scroll offset, invokes the      *)
(* Viewport Capturer once, returns that raster as it came, without         *)
(* stitching, and reports captureType = single.                            *)
(***************************************************************************)
C23_ViewportSessionPassesThrough ==
    \A c \in Calls :
        /\ (pc[c] # "idle" /\ DocFits /\ hist[c].error # ErrInProgress) =>
              scroll = hist[c].startScroll
        /\ loc[c].strategy.type = "viewport" =>
              /\ DocFits
              /\ hist[c].scrolledTo = <<>>
              /\ hist[c].captureTabs = <<-1>>
              /\ ~hist[c].stitched
              /\ hist[c].stitchInput = <<>>
              /\ pc[c] \in {"capturing", "resolved", "rejected"}
              /\ pc[c] = "resolved" =>
                    /\ hist[c].captureType = "single"
                    /\ hist[c].imageData =
                          [width |-> VW, height |-> VH,
                           drawn |-> << [data |-> hist[c].startScroll,
                                         x |-> 0, y |-> 0] >>]

\* the 1024 x 768 viewport on the 1000 x 700 page: one request, the raster
\* returned as single
C23_Witness ==
    \E c \in Calls :
        /\ VW = 1024 /\ VH = 768 /\ PW = 1000 /\ PH = 700
        /\ pc[c] = "resolved"
        /\ loc[c].strategy.type = "viewport"
        /\ hist[c].captureTabs = <<-1>>
        /\ hist[c].captureType = "single"
        /\ hist[c].imageData.width = 1024 /\ hist[c].imageData.height = 768

(***************************************************************************)
(* What a canvas shows.  A pixel that no drawImage reached is white, as    *)
(* the fillRect left it; any other shows what the last raster drawn over   *)
(* it shows there: the page position (x, y) as seen by the draw-th         *)
(* capture.  A raster has the size of the viewport.                        *)
(***************************************************************************)
White == [draw |-> 0, x |-> -1, y |-> -1]

CanvasPixel(canvas, viewport, px, py) ==
    LET over == { k \in 1..Len(canvas.drawn) :
                    /\ canvas.drawn[k].x <= px
                    /\ px < canvas.drawn[k].x + viewport.width
                    /\ canvas.drawn[k].y <= py
                    /\ py < canvas.drawn[k].y + viewport.height }
    IN  IF over = {} THEN White
        ELSE LET k == CHOOSE m \in over : \A n \in over : n <= m
             IN  [draw |-> k,
                  x |-> canvas.drawn[k].data.x + (px - canvas.drawn[k].x),
                  y |-> canvas.drawn[k].data.y + (py - canvas.drawn[k].y)]

\* The pixels looked at: every column of a page up to MaxPH wide and every
\* row of a page up to MaxPH high; of a larger page the columns and rows at
\* and next to the edges of a raster or section.  Rasters and sections
\* being rectangles at the same places, what lies between two edges is
\* painted as the edges are.
EdgeColumns ==
    { px \in 0..(PW - 1) : PW <= MaxPH \/ px = 0 \/ px >= VW - 1 }

EdgeRows(c) ==
    { py \in 0..(PH - 1) :
        \/ PH <= MaxPH
        \/ py = 0
        \/ py = PH - 1
        \/ \E i \in 1..Len(Plan(c)) :
              py \in { Plan(c)[i].y - 1, Plan(c)[i].y,
                       Plan(c)[i].y + VH - 1, Plan(c)[i].y + VH } }

\* the planned sections of call c that hold the pixel (px, py)
Holding(c, px, py) ==
    { i \in 1..Len(Plan(c)) : Holds(Plan(c)[i], px, py) }

C24_DrawnInOrderAtSectionOrigin ==
    \A c \in Calls :
        (pc[c] = "resolved" /\ hist[c].stitched) =>
            LET drawn == hist[c].imageData.drawn
            IN  /\ Len(drawn) = Len(Plan(c))
                /\ \A k \in 1..Len(drawn) :
                      /\ drawn[k].x = Plan(c)[k].x /\ drawn[k].x = 0
                      /\ drawn[k].y = Plan(c)[k].y
                      /\ drawn[k].data = hist[c].stitchInput[k].data
                      /\ Plan(c)[k].index = k - 1

C24_LastDrawnShows ==
    \A c \in Calls :
        (pc[c] = "stitching" /\ pc'[c] = "resolved") =>
            \A py \in EdgeRows(c) : \A px \in EdgeColumns :
                CanvasPixel(hist'[c].imageData, loc[c].analysis.viewport, px, py)
                  = IF Holding(c, px, py) = {} THEN White
                    ELSE [draw |-> CHOOSE i \in Holding(c, px, py) :
                                      \A j \in Holding(c, px, py) : j <= i,
                          x |-> px, y |-> py]

(***************************************************************************)
(* C24.  The stitcher draws each capture at its section's absolute (x, y)  *)
(* in ascending index order on an opaque white canvas: in the composite    *)
(* every position covered by several sections shows the page as the        *)
(* highest-index section covering it captured it, and every position       *)
(* covered by no capture is white.                                         *)
(***************************************************************************)
C24_StitchedInIndexOrderOnWhite ==
    /\ []C24_DrawnInOrderAtSectionOrigin
    /\ [][C24_LastDrawnShows]_vars

\* 800 x 600 on 800 x 1800: row 560 is in sections 0 and 1 and shows the
\* second capture, row 1200 is in sections 2 and 3 and shows the fourth
C24_Witness ==
    \E c \in Calls :
        /\ pc[c] = "resolved" /\ hist[c].stitched
        /\ VH = 600 /\ PH = 1800
        /\ Holding(c, 0, 560) = {1, 2}
        /\ CanvasPixel(hist[c].imageData, loc[c].analysis.viewport, 0, 560)
              = [draw |-> 2, x |-> 0, y |-> 560]
        /\ Holding(c, 0, 1200) = {3, 4}
        /\ CanvasPixel(hist[c].imageData, loc[c].analysis.viewport, 799, 1200)
              = [draw |-> 4, x |-> 799, y |-> 1200]

(***************************************************************************)
(* C25 as claimed: the stability wait before a section capture does not    *)
(* complete until the page scroll offset, the pair (x, y), has been        *)
(* unchanged across 3 consecutive animation-frame samples.                 *)
(***************************************************************************)
C25_WaitEndsOnStableOffset ==
    \A c \in Calls :
        pc[c] \in {"images", "settling"} =>
            /\ Len(loc[c].samples) = StableChecks
            /\ \A j, k \in 1..Len(loc[c].samples) :
                  loc[c].samples[j] = loc[c].samples[k]

\* waitForImages waits only for images that are incomplete, and goes on
\* at once when there is none
C26_WaitsForIncompleteOnly ==
    \A c \in Calls :
        /\ pc[c] = "images" => loc[c].images \in 1..MaxImages
        /\ pc[c] = "settling" => loc[c].images = 0

\* each load, error or timer settles one image; the wait is over with the
\* last of them
C26_OneImagePerEvent ==
    \A c \in Calls :
        pc[c] = "images" =>
            \/ UNCHANGED <<pc[c], loc[c]>>
            \/ /\ loc'[c].images = loc[c].images - 1
               /\ pc'[c] = IF loc[c].images = 1 THEN "settling" ELSE "images"

C27_MovedByLoopOnly ==
    scroll' # scroll =>
        \E c \in Calls :
            /\ pc[c] = "scrolling"
            /\ Planned(c)
            /\ loc[c].phase \in {"section", "restore"}
            /\ \/ scroll' = ScrollTo(loc[c].anim.x, loc[c].anim.y)
               \/ scroll' = ScrollTo(Eased(loc[c].anim.startX, loc[c].anim.x),
                                     Eased(loc[c].anim.startY, loc[c].anim.y))

\* before and after captureWithScrolling the offset is the one the session
\* started at
C27_ConstantOutsideLoop ==
    \A c \in Calls :
        pc[c] \in {"analyzed", "stitching"} => scroll = hist[c].startScroll

(***************************************************************************)
(* C27.  Only the capture loop changes the page scroll offset: page        *)
(* analysis, strategy selection, section planning, result processing and   *)
(* stitching leave it unchanged, so outside captureWithScrolling the       *)
(* offset is constant during a session.                                    *)
(***************************************************************************)
C27_OnlyLoopScrolls ==
    /\ []C27_ConstantOutsideLoop
    /\ [][C27_MovedByLoopOnly]_vars

\* the stitcher at work on three captures, the page back at the scrolled
\* offset the session started at
C27_Witness ==
    \E c \in Calls :
        /\ pc[c] = "stitching"
        /\ Len(hist[c].scrolledTo) = 3
        /\ hist[c].startScroll.y > 0
        /\ scroll = hist[c].startScroll
        /\ loc[c].k = 2

\* no section index is asked for twice, and the request that failed is the
\* session's last
C28_AtMostOncePerSection ==
    \A c \in Calls :
        /\ \A j, k \in 1..Len(hist[c].captureTabs) :
              j # k => hist[c].captureTabs[j] # hist[c].captureTabs[k]
        /\ Len(hist[c].captureTabs) <= Max(1, Len(loc[c].strategy.sections))
        /\ hist[c].failedAt >= 0 =>
              /\ Len(hist[c].captureTabs) = hist[c].failedAt + 1
              /\ hist[c].captureTabs[Len(hist[c].captureTabs)] = hist[c].failedAt
        /\ hist[c].error = ErrCaptureTab =>
              Len(hist[c].captureTabs)
                 = IF loc[c].strategy.type = "viewport" THEN 1
                   ELSE hist[c].failedAt + 1

\* after a failure of the capturer the session sends no request
C28_NoRequestAfterFailure ==
    \A c \in Calls :
        (hist[c].failedAt >= 0 \/ hist[c].error = ErrCaptureTab) =>
            hist'[c].captureTabs = hist[c].captureTabs

(***************************************************************************)
(* C28.  The core never retries: within one session the Viewport Capturer  *)
(* is invoked at most once per planned section index, and after a capturer *)
(* failure it is not invoked again in that session.                        *)
(***************************************************************************)
C28_NeverRetries ==
    /\ []C28_AtMostOncePerSection
    /\ [][C28_NoRequestAfterFailure]_vars

\* the second of three sections failed: the session is restoring the
\* scroll and has sent its two requests
C28_Witness ==
    \E c \in Calls :
        /\ pc[c] = "scrolling" /\ loc[c].phase = "restore"
        /\ Len(loc[c].strategy.sections) = 3
        /\ hist[c].failedAt = 1
        /\ hist[c].captureTabs = <<0, 1>>

\* where a session of sections stands, step by step
C29_StepsInPlace ==
    \A c \in Calls :
        (Active(c) /\ Planned(c)) =>
            LET i == Len(loc[c].captures)
                section == Plan(c)[i + 1]
            IN  /\ (pc[c] = "scrolling" /\ loc[c].phase = "section") =>
                      /\ Len(hist[c].scrolledTo) = i + 1
                      /\ Len(hist[c].captureTabs) = i
                      /\ loc[c].anim.x = section.x /\ loc[c].anim.y = section.y
                /\ pc[c] \in Waiting \cup {"capturing"} =>
                      /\ Len(hist[c].scrolledTo) = i + 1
                      /\ scroll = ScrollTo(section.x, section.y)
                /\ pc[c] = "stabilizing" => loc[c].stableCount < StableChecks
                /\ pc[c] \in {"images", "settling", "capturing"} =>
                      loc[c].stableCount = StableChecks
                /\ pc[c] \in {"settling", "capturing"} => loc[c].images = 0
                /\ pc[c] \in Waiting => Len(hist[c].captureTabs) = i
                /\ pc[c] = "capturing" =>
                      /\ Len(hist[c].captureTabs) = i + 1
                      /\ hist[c].captureTabs[i + 1] = section.index
                /\ Len(hist[c].progress) = i

\* which step may follow which
C29_StepsInOrder ==
    \A c \in Calls :
        (Active(c) /\ Planned(c) /\ pc'[c] # pc[c]) =>
            \/ pc[c] = "scrolling" /\ loc[c].phase = "section"
                  /\ pc'[c] = "stabilizing"
            \/ pc[c] = "stabilizing" /\ pc'[c] \in {"images", "settling"}
            \/ pc[c] = "images" /\ pc'[c] = "settling"
            \/ pc[c] = "settling" /\ pc'[c] = "capturing"
            \/ pc[c] = "capturing" /\ pc'[c] = "scrolling"
                  /\ \/ /\ loc'[c].phase = "section"
                        /\ Len(loc'[c].captures) = Len(loc[c].captures) + 1
                        /\ Len(hist'[c].progress) = Len(hist[c].progress) + 1
                        /\ Len(hist'[c].scrolledTo) = Len(hist[c].scrolledTo) + 1
                     \/ /\ loc'[c].phase = "restore"
                        /\ hist'[c].scrolledTo = hist[c].scrolledTo
            \/ pc[c] = "scrolling" /\ loc[c].phase = "restore"
                  /\ pc'[c] \in {"stitching", "rejected"}
            \/ pc[c] = "stitching" /\ pc'[c] \in Settled

(***************************************************************************)
(* C29.  For every main section the steps come in the order scroll ->      *)
(* stability wait (scroll stable, then images, then settle delay) ->       *)
(* viewport capture -> progress event: the Viewport Capturer is never      *)
(* invoked for section i before the scroll animation to                    *)
(* (section.x, section.y) has finished and the stability wait has          *)
(* completed, and the scroll to section i + 1 never starts before section  *)
(* i's raster has been received.                                           *)
(***************************************************************************)
C29_ScrollWaitCaptureProgress ==
    /\ []C29_StepsInPlace
    /\ [][C29_StepsInOrder]_vars

\* the second section's settle delay is running: one raster and one
\* progress event so far, the page at the section
C29_Witness ==
    \E c \in Calls :
        /\ pc[c] = "settling"
        /\ Len(loc[c].captures) = 1
        /\ Len(hist[c].progress) = 1
        /\ hist[c].scrolledTo = <<0, 1>>
        /\ hist[c].captureTabs = <<0>>
        /\ scroll.y = Plan(c)[2].y /\ scroll.y > 0

\* the flag and the id while a call is in progress, and while none is
C30_FlagWhileInProgress ==
    /\ \A c \in Calls :
          Active(c) =>
              /\ isCapturing
              /\ captureId # Null
              /\ captureId = hist[c].captureId
    /\ (\A c \in Calls : ~Active(c)) =>
          /\ ~isCapturing
          /\ captureId = Null

\* every exit of an accepted call clears both, and the request that comes
\* next is accepted
C30_ClearedOnExit ==
    \A c \in Calls :
        /\ (Active(c) /\ pc'[c] \in Settled) =>
              /\ isCapturing' = FALSE
              /\ captureId' = Null
              /\ pc'[c] = "rejected" =>
                    hist'[c].error \in {ErrAnalyze, ErrCaptureTab,
                                        ErrLoadImage}
        /\ (pc[c] = "idle" /\ pc'[c] # "idle"
              /\ \A d \in Calls : ~Active(d)) =>
              /\ pc'[c] = "analyzed"
              /\ isCapturing' /\ captureId' # Null

(***************************************************************************)
(* C30.  On every exit path of an accepted captureFullPage call (success,  *)
(* error in page analysis, error in a main section, error while stitching) *)
(* isCapturing is false and captureId is null when the call settles, so    *)
(* the next request is accepted; while the call is in progress isCapturing *)
(* is true and captureId is non-null.                                      *)
(***************************************************************************)
C30_FlagClearedOnEveryExit ==
    /\ []C30_FlagWhileInProgress
    /\ [][C30_ClearedOnExit]_vars

\* a call failed in the stitcher and the next request was accepted
C30_Witness ==
    \E c, d \in Calls :
        /\ pc[c] = "rejected"
        /\ hist[c].error = ErrLoadImage
        /\ pc[d] = "analyzed"
        /\ isCapturing
        /\ captureId = hist[d].captureId
        /\ captureId # hist[c].captureId

(***************************************************************************)
(* C31.  In a Complex session no region capture and no frame capture is    *)
(* attempted until every main section has been captured and the scroll     *)
(* offset is back at its original value; the regions are then tried in     *)
(* list order, followed by the accessible frames in list order.            *)
(***************************************************************************)
\* the secondary captures a session has called so far
Attempts(c) ==
    Len(hist[c].secondary) + Len(hist[c].regionAttempts)
        + Len(hist[c].frameAttempts)

\* the step that calls them: the restoring scroll of a loop that captured
\* every section ends on the original offset
C31_AfterSectionsAndRestore ==
    [][ \A c \in Calls :
          Attempts(c)' # Attempts(c) =>
             /\ Attempts(c) = 0
             /\ loc[c].strategy.type = "complex"
             /\ pc[c] = "scrolling" /\ loc[c].phase = "restore"
             /\ loc[c].thrown = Null
             /\ Len(loc[c].captures) = Len(loc[c].strategy.sections)
             /\ \A i \in 1..Len(loc[c].strategy.sections) :
                   loc[c].captures[i].section = loc[c].strategy.sections[i]
             /\ hist[c].captureTabs
                   = [i \in 1..Len(loc[c].strategy.sections) |-> i - 1]
             /\ scroll' = loc[c].originalScroll
             /\ scroll' = hist[c].startScroll ]_vars

\* the calls made: every region in list order, then every accessible frame
\* in list order
C31_RegionsThenFrames ==
    \A c \in Calls :
        LET regions == loc[c].strategy.scrollableElements
            frames  == SelectSeq(loc[c].strategy.iframes,
                                 LAMBDA f : f.accessible)
        IN  \/ Attempts(c) = 0
            \/ /\ hist[c].stitched
               /\ hist[c].secondary
                    = [k \in 1..Len(regions) |->
                          [kind |-> "region", element |-> regions[k]]]
                      \o [k \in 1..Len(frames) |->
                          [kind |-> "frame", element |-> frames[k].element]]
               /\ hist[c].regionAttempts = regions
               /\ hist[c].frameAttempts = frames

C31_SecondaryAfterMainInListOrder ==
    /\ []C31_RegionsThenFrames
    /\ C31_AfterSectionsAndRestore

\* a Complex session of three sections, started at the bottom of the page,
\* that tried its region and then its two accessible frames out of three
C31_Witness ==
    \E c \in Calls :
        /\ loc[c].strategy.type = "complex"
        /\ Len(loc[c].strategy.sections) = 3
        /\ hist[c].startScroll.y > 0
        /\ scroll = hist[c].startScroll
        /\ pc[c] = "stitching"
        /\ Len(loc[c].strategy.iframes) = 3
        /\ hist[c].secondary =
             << [kind |-> "region", element |-> 1],
                [kind |-> "frame", element |-> 1],
                [kind |-> "frame", element |-> 3] >>

(***************************************************************************)
(* C32.  Every accepted captureFullPage call runs to completion or         *)
(* failure: with animation frames and timers that fire, a capturer that    *)
(* answers every request and a page scrolled by the engine only, the call  *)
(* eventually resolves or rejects, with isCapturing false, whatever the    *)
(* number of sections.                                                     *)
(***************************************************************************)
\* the call passed the guard: the flag is set and the session is under way
Accepted(c) == pc[c] \notin {"idle"} \cup Settled

Finished(c) == pc[c] \in Settled /\ ~isCapturing /\ captureId = Null

C32_SettledWithFlagCleared ==
    pc[1] \in Settled => ~isCapturing

C32_RunsToCompletionOrFailure ==
    /\ []C32_SettledWithFlagCleared
    /\ \A n \in 0..4 :
          (Accepted(1) /\ Len(loc[1].strategy.sections) = n) ~> Finished(1)
    /\ Accepted(1) ~> Finished(1)

\* a session of four sections waiting in its last stability check
C32_Witness ==
    /\ Accepted(1)
    /\ isCapturing
    /\ Len(loc[1].strategy.sections) = 4
    /\ Len(loc[1].captures) = 3
    /\ pc[1] = "stabilizing"
    /\ loc[1].stableCount = 2

(***************************************************************************)
(* C33.  In every plan of calculateSections the indexes are 0..count-1 in  *)
(* list order and y is strictly increasing with the index: no two sections *)
(* of a plan ask for the same scroll position.                             *)
(***************************************************************************)
C33_StrictlyIncreasingY ==
    \A c \in Calls :
        Planned(c) =>
            /\ \A i \in 1..Len(Plan(c)) : Plan(c)[i].index = i - 1
            /\ \A i \in 1..(Len(Plan(c)) - 1) : Plan(c)[i].y < Plan(c)[i + 1].y
            /\ \A i, j \in 1..Len(Plan(c)) :
                  i # j => <<Plan(c)[i].x, Plan(c)[i].y>>
                              # <<Plan(c)[j].x, Plan(c)[j].y>>

(***************************************************************************)
(* background.js and content.js: a takeScreenshot call in the background   *)
(* service worker, the 'startCapture' message it sends to the content      *)
(* script of the active tab, the 'captureTab' message the content script   *)
(* sends back, and the responses.  shot[t].pc is where the chain of call t *)
(* stands:                                                                 *)
(*   query, settings, ping, inject   takeScreenshot awaits a chrome call   *)
(*   startCapture                    the message is on its way             *)
(*   captureTab                      startScreenshotCapture awaits; the    *)
(*                                   message is on its way                 *)
(*   tabQuery, capturing             captureCurrentTab awaits a chrome call*)
(*   tabAnswer                       the response to 'captureTab' is on    *)
(*                                   its way                               *)
(*   answer                          the response to 'startCapture' is on  *)
(*                                   its way                               *)
(*   opening                         openViewer awaits chrome.tabs.create  *)
(*   resolved, rejected              takeScreenshot has settled            *)
(***************************************************************************)
ErrNoTab == "No active tab found"
ErrStorage == "chrome.storage.sync.get failed"
ErrInject == "chrome.scripting.executeScript failed"
ErrCaptureVisibleTab == "chrome.tabs.captureVisibleTab failed"
ErrViewer == "chrome.tabs.create failed"

\* autoOpenViewer in the stored settings and in the options of a message
AutoOpen == {"absent", "true", "false"}

\* { ...settings, ...options }
Merged(settings, options) == IF options # "absent" THEN options ELSE settings

\* the viewer opened whatever the setting
OpensViewerAlways(autoOpenViewer) == TRUE

\* if (captureOptions.autoOpenViewer !== false)
OpensViewer(autoOpenViewer) == autoOpenViewer # "false"

\* the listener answering 'startCapture' without looking at the flag
ContentNeverBusy == FALSE

\* if (isCapturing) in the listener of the content script
ContentBusy == content.isCapturing

\* a service worker that serves no message while a takeScreenshot call of
\* its own waits for the content script
BackgroundBlocked(t) == \A u \in Shots : shot[u].pc # "captureTab"

\* Every await of takeScreenshot returns to the event loop of the service
\* worker: its listener runs whatever calls are pending.
BackgroundListens(t) == TRUE

\* the catch block of takeScreenshot, then the .catch of the listener
Failed(s, error) ==
    [s EXCEPT !.pc = "rejected",
              !.notifications = @ + 1,
              !.responses = Append(@, [success |-> FALSE, error |-> error])]

\* return processedData, then the .then of the listener
Succeeded(s) ==
    [s EXCEPT !.pc = "resolved",
              !.responses = Append(@, [success |-> TRUE, error |-> Null])]

\* the 'takeScreenshot' message arrives: takeScreenshot up to its first await
takeScreenshot(t) ==
    /\ shot[t].pc = "idle"
    /\ \A u \in Shots : u < t => shot[u].pc # "idle"
    /\ \E options \in AutoOpen :
          shot' = [shot EXCEPT ![t] = [@ EXCEPT !.pc = "query",
                                                !.options = options]]
    /\ UNCHANGED <<content, engine, optionsPage, editor>>

\* const [tab] = await chrome.tabs.query(...)
TabQueried(t) ==
    /\ shot[t].pc = "query"
    /\ \/ shot' = [shot EXCEPT ![t].pc = "settings"]
       \/ shot' = [shot EXCEPT ![t] = Failed(@, ErrNoTab)]
    /\ UNCHANGED <<content, engine, optionsPage, editor>>

\* await getSettings(); the ping of ensureContentScriptInjected is sent
SettingsRead(t) ==
    /\ shot[t].pc = "settings"
    /\ \/ \E settings \in AutoOpen :
             shot' = [shot EXCEPT ![t] =
                        [@ EXCEPT !.pc = "ping", !.options = "absent",
                                  !.autoOpenViewer =
                                      Merged(settings, shot[t].options)]]
       \/ shot' = [shot EXCEPT ![t] = Failed(@, ErrStorage)]
    /\ UNCHANGED <<content, engine, optionsPage, editor>>

\* the content script answers the ping: 'startCapture' is sent
PingAnswered(t) ==
    /\ shot[t].pc = "ping"
    /\ content.injected
    /\ shot' = [shot EXCEPT ![t].pc = "startCapture"]
    /\ UNCHANGED <<content, engine, optionsPage, editor>>

\* no content script in the tab: chrome.scripting.executeScript is called
PingFailed(t) ==
    /\ shot[t].pc = "ping"
    /\ ~content.injected
    /\ shot' = [shot EXCEPT ![t].pc = "inject"]
    /\ UNCHANGED <<content, engine, optionsPage, editor>>

\* content.js has run in the tab: 'startCapture' is sent.  A second run in
\* the same tab declares nothing again and leaves the globals of the first.
ScriptInjected(t) ==
    /\ shot[t].pc = "inject"
    /\ content' = [content EXCEPT !.injected = TRUE]
    /\ shot' = [shot EXCEPT ![t].pc = "startCapture"]
    /\ UNCHANGED <<engine, optionsPage, editor>>

InjectFailed(t) ==
    /\ shot[t].pc = "inject"
    /\ shot' = [shot EXCEPT ![t] = Failed(@, ErrInject)]
    /\ UNCHANGED <<content, engine, optionsPage, editor>>

\* showCaptureIndicator: one more element with the indicator's id
showCaptureIndicator(c) == [c EXCEPT !.indicators = @ + 1]

\* hideCaptureIndicator: the first element with the indicator's id removed
hideCaptureIndicator(c) == [c EXCEPT !.indicators = Max(0, @ - 1)]

\* The listener of the content script gets 'startCapture'.  With a capture
\* running it answers at once; otherwise startScreenshotCapture runs up to
\* the await in captureBasicScreenshot, which has sent 'captureTab'.
StartCaptureReceived(t) ==
    /\ shot[t].pc = "startCapture"
    /\ IF ContentBusy
       THEN /\ shot' = [shot EXCEPT ![t] =
                          [@ EXCEPT !.pc = "answer", !.answer = ErrInProgress]]
            /\ UNCHANGED content
       ELSE /\ content' = showCaptureIndicator(
                              [content EXCEPT !.isCapturing = TRUE])
            /\ shot' = [shot EXCEPT ![t] =
                          [@ EXCEPT !.pc = "captureTab",
                                    !.captureTabs = @ + 1]]
    /\ UNCHANGED <<engine, optionsPage, editor>>

\* the listener of the background gets 'captureTab': captureCurrentTab up
\* to its first await
CaptureTabReceived(t) ==
    /\ shot[t].pc = "captureTab"
    /\ BackgroundListens(t)
    /\ shot' = [shot EXCEPT ![t].pc = "tabQuery"]
    /\ UNCHANGED <<content, engine, optionsPage, editor>>

\* captureCurrentTab: the active tab is found and captureVisibleTab is
\* called, or there is none and the failure is answered
ActiveTabQueried(t) ==
    /\ shot[t].pc = "tabQuery"
    /\ \/ shot' = [shot EXCEPT ![t].pc = "capturing"]
       \/ shot' = [shot EXCEPT ![t] =
                     [@ EXCEPT !.pc = "tabAnswer", !.answer = ErrNoTab]]
    /\ UNCHANGED <<content, engine, optionsPage, editor>>

\* what chrome.tabs.captureVisibleTab pictures: the page as it is shown
Pictured == IF content.indicators > 0 THEN "shown" ELSE "hidden"

\* chrome.tabs.captureVisibleTab resolves: { success: true, data } is sent
VisibleTabCaptured(t) ==
    /\ shot[t].pc = "capturing"
    /\ shot' = [shot EXCEPT ![t] =
                  [@ EXCEPT !.pc = "tabAnswer", !.answer = "ok",
                            !.overlay = Pictured]]
    /\ UNCHANGED <<content, engine, optionsPage, editor>>

\* chrome.tabs.captureVisibleTab rejects: { success: false, error } is sent
VisibleTabFailed(t) ==
    /\ shot[t].pc = "capturing"
    /\ shot' = [shot EXCEPT ![t] =
                  [@ EXCEPT !.pc = "tabAnswer", !.answer = ErrCaptureVisibleTab]]
    /\ UNCHANGED <<content, engine, optionsPage, editor>>

\* The callback of captureBasicScreenshot runs: the promise settles, the
\* finally block of startScreenshotCapture clears the flag and hides the
\* indicator, and the listener answers 'startCapture'.
CaptureTabAnswered(t) ==
    /\ shot[t].pc = "tabAnswer"
    /\ content' = hideCaptureIndicator([content EXCEPT !.isCapturing = FALSE])
    /\ shot' = [shot EXCEPT ![t].pc = "answer"]
    /\ UNCHANGED <<engine, optionsPage, editor>>

\* takeScreenshot gets the answer to 'startCapture': it throws on a
\* failure; otherwise processScreenshotData runs and the viewer is opened
\* unless autoOpenViewer is false.
StartCaptureAnswered(t) ==
    /\ shot[t].pc = "answer"
    /\ shot' = [shot EXCEPT ![t] =
                  IF @.answer # "ok" THEN Failed(@, @.answer)
                  ELSE IF OpensViewer(@.autoOpenViewer)
                       THEN [@ EXCEPT !.pc = "opening", !.answered = TRUE]
                       ELSE Succeeded([@ EXCEPT !.answered = TRUE])]
    /\ UNCHANGED <<content, engine, optionsPage, editor>>

\* openViewer: chrome.tabs.create resolves with the viewer's tab
ViewerOpened(t) ==
    /\ shot[t].pc = "opening"
    /\ shot' = [shot EXCEPT ![t] = Succeeded([@ EXCEPT !.viewers = @ + 1])]
    /\ UNCHANGED <<content, engine, optionsPage, editor>>

ViewerFailed(t) ==
    /\ shot[t].pc = "opening"
    /\ shot' = [shot EXCEPT ![t] = Failed(@, ErrViewer)]
    /\ UNCHANGED <<content, engine, optionsPage, editor>>

ExtensionInit ==
    /\ EngineIdle
    /\ content \in { ContentIdle(injected) : injected \in BOOLEAN }
    /\ shot = [t \in Shots |-> InitShot]
    /\ OptionsIdle
    /\ EditorIdle

ExtensionNext ==
    \E t \in Shots :
        \/ takeScreenshot(t)
        \/ TabQueried(t)
        \/ SettingsRead(t)
        \/ PingAnswered(t)
        \/ PingFailed(t)
        \/ ScriptInjected(t)
        \/ InjectFailed(t)
        \/ StartCaptureReceived(t)
        \/ CaptureTabReceived(t)
        \/ ActiveTabQueried(t)
        \/ VisibleTabCaptured(t)
        \/ VisibleTabFailed(t)
        \/ CaptureTabAnswered(t)
        \/ StartCaptureAnswered(t)
        \/ ViewerOpened(t)
        \/ ViewerFailed(t)

ExtensionSpec == ExtensionInit /\ [][ExtensionNext]_vars

\* What the chain of call t waits for: the settling of a chrome call, one
\* way or the other, or the delivery of a message or of a response.  A
\* chain waits for one of them at a time.
Delivered(t) ==
    \/ TabQueried(t)
    \/ SettingsRead(t)
    \/ PingAnswered(t) \/ PingFailed(t)
    \/ ScriptInjected(t) \/ InjectFailed(t)
    \/ StartCaptureReceived(t)
    \/ CaptureTabReceived(t)
    \/ ActiveTabQueried(t)
    \/ VisibleTabCaptured(t) \/ VisibleTabFailed(t)
    \/ CaptureTabAnswered(t)
    \/ StartCaptureAnswered(t)
    \/ ViewerOpened(t) \/ ViewerFailed(t)

\* Two calls and their chains, no third call arriving: one capture that
\* runs and one that meets it.
PairNext ==
    \/ takeScreenshot(1) \/ Delivered(1)
    \/ takeScreenshot(2) \/ Delivered(2)

\* Messages and responses are delivered and every chrome call settles.
\* Nothing makes a 'takeScreenshot' message arrive.
MessagesDelivered == WF_vars(Delivered(1)) /\ WF_vars(Delivered(2))

ExtensionLiveSpec == ExtensionInit /\ [][PairNext]_vars /\ MessagesDelivered

(***************************************************************************)
(* C34.  Whatever the interleaving of 'startCapture' messages to one       *)
(* content script, at most one startScreenshotCapture is in flight: a      *)
(* message that arrives while isCapturing is true is answered { success:   *)
(* false, error: 'Capture already in progress' }, sends no 'captureTab'    *)
(* and leaves isCapturing alone, and isCapturing is false again once the   *)
(* running capture has resolved or rejected.                               *)
(***************************************************************************)
\* startScreenshotCapture has been called for t and has not settled
InFlight(t) == shot[t].pc \in {"captureTab", "tabQuery", "capturing", "tabAnswer"}

C34_OneInFlight ==
    /\ Cardinality({ t \in Shots : InFlight(t) }) <= 1
    /\ content.isCapturing <=> \E t \in Shots : InFlight(t)
    /\ \A t \in Shots : shot[t].captureTabs <= 1

C34_BusyAnswerAndRelease ==
    [][ \A t \in Shots :
          /\ (shot[t].pc = "startCapture" /\ shot'[t].pc # "startCapture"
                 /\ content.isCapturing) =>
                /\ shot'[t].pc = "answer"
                /\ shot'[t].answer = ErrInProgress
                /\ \A u \in Shots : shot'[u].captureTabs = shot[u].captureTabs
                /\ content' = content
          /\ (InFlight(t) /\ ~InFlight(t)') =>
                /\ shot[t].pc = "tabAnswer"
                /\ shot'[t].pc = "answer"
                /\ ~content'.isCapturing
          /\ (shot[t].pc = "answer" /\ shot'[t].pc # "answer"
                 /\ shot[t].answer = ErrInProgress) =>
                /\ shot'[t].responses
                      = << [success |-> FALSE, error |-> ErrInProgress] >>
                /\ shot'[t].captureTabs = 0 ]_vars

C34_AtMostOneCaptureInFlight ==
    /\ []C34_OneInFlight
    /\ C34_BusyAnswerAndRelease

\* the second 'startCapture' was refused while the capture of the first
\* waits for chrome.tabs.captureVisibleTab
C34_Witness ==
    /\ shot[1].pc = "capturing"
    /\ content.isCapturing
    /\ shot[2].pc = "answer"
    /\ shot[2].answer = ErrInProgress
    /\ shot[2].captureTabs = 0

(***************************************************************************)
(* C35.  The 'Capturing screenshot...' indicator of the content script is  *)
(* not in the page at the moment the background captures the visible tab   *)
(* for that capture: no captured picture shows it.                         *)
(***************************************************************************)
C35_IndicatorNotPictured ==
    \A t \in Shots : shot[t].overlay # "shown"

(***************************************************************************)
(* C36.  takeScreenshot opens the viewer only after the content script     *)
(* answered 'startCapture' with success, and only if autoOpenViewer is not *)
(* false.  On a failure (no active tab, script injection failure, failure  *)
(* answer of the content script) it opens no viewer, attempts one          *)
(* 'Screenshot Failed' notification and rethrows: the 'takeScreenshot'     *)
(* message is answered { success: false } with the error message.          *)
(***************************************************************************)
\* the errors of takeScreenshot before the content script has answered with
\* success
ErrBeforeAnswer ==
    {ErrNoTab, ErrStorage, ErrInject, ErrInProgress, ErrCaptureVisibleTab}

C36_ViewerAfterSuccessOnly ==
    \A t \in Shots :
        LET s == shot[t]
        IN  /\ s.viewers <= 1
            /\ (s.viewers = 1 \/ s.pc = "opening") =>
                  /\ s.answered
                  /\ s.answer = "ok"
                  /\ s.autoOpenViewer # "false"
            /\ s.pc = "resolved" =>
                  /\ s.answered
                  /\ s.viewers = 1 <=> s.autoOpenViewer # "false"
                  /\ s.notifications = 0
                  /\ s.responses = << [success |-> TRUE, error |-> Null] >>
            /\ s.pc = "rejected" =>
                  /\ s.viewers = 0
                  /\ s.notifications = 1
                  /\ Len(s.responses) = 1
                  /\ ~s.responses[1].success
                  /\ s.responses[1].error \in ErrBeforeAnswer \cup {ErrViewer}
                  /\ s.responses[1].error = ErrViewer <=> s.answered
                  /\ s.answer \notin {Null, "ok"} =>
                        s.responses[1].error = s.answer
            /\ s.pc \notin {"resolved", "rejected"} =>
                  /\ s.viewers = 0
                  /\ s.notifications = 0
                  /\ s.responses = <<>>

\* the first call opened the viewer; the second, refused by the content
\* script, opened none and was answered with the refusal
C36_Witness ==
    /\ shot[1].pc = "resolved"
    /\ shot[1].viewers = 1
    /\ shot[1].autoOpenViewer = "absent"
    /\ shot[2].pc = "rejected"
    /\ shot[2].viewers = 0
    /\ shot[2].notifications = 1
    /\ shot[2].autoOpenViewer = "true"
    /\ shot[2].responses = << [success |-> FALSE, error |-> ErrInProgress] >>

(***************************************************************************)
(* C37.  The nested chain takeScreenshot -> 'startCapture' -> 'captureTab' *)
(* -> responses does not deadlock: the background answers 'captureTab'     *)
(* while its own takeScreenshot still waits for the content script.  With  *)
(* messages that are delivered, every 'takeScreenshot' message gets        *)
(* exactly one response in the end, and the isCapturing of the content     *)
(* script is false afterwards.                                             *)
(***************************************************************************)
Requested(t) == shot[t].pc # "idle"

Responded(t) == shot[t].pc \in {"resolved", "rejected"}

C37_NeverBlocked ==
    \A t \in Shots :
        /\ Len(shot[t].responses) <= 1
        /\ Responded(t) <=> Len(shot[t].responses) = 1
        /\ shot[t].pc = "captureTab" => ENABLED CaptureTabReceived(t)
        /\ (\A u \in Shots : Requested(u) => Responded(u)) =>
              ~content.isCapturing /\ content.indicators = 0

\* a response, once sent, is the only one
C37_OneResponse ==
    [][ \A t \in Shots :
          /\ shot[t].responses # <<>> => shot'[t].responses = shot[t].responses
          /\ (shot[t].pc \in {"captureTab", "tabQuery", "capturing"}
                 /\ shot'[t].pc # shot[t].pc) =>
                /\ \A u \in Shots : u # t => shot'[u] = shot[u]
                /\ shot'[t].responses = <<>> ]_vars

C37_ChainCompletes ==
    /\ []C37_NeverBlocked
    /\ C37_OneResponse
    /\ \A t \in Shots :
          Requested(t) ~> (Responded(t) /\ Len(shot[t].responses) = 1)
    /\ (\E t \in Shots : Requested(t)) ~> ~content.isCapturing

\* the background serves the 'captureTab' of the first chain while both
\* takeScreenshot calls wait for the content script
C37_Witness ==
    /\ shot[1].pc = "capturing"
    /\ shot[1].responses = <<>>
    /\ shot[2].pc = "startCapture"
    /\ content.isCapturing

(***************************************************************************)
(* The options page: setupEventListeners, debounce and autoSave.  Each of  *)
(* the form elements 1..NElements got one debounced function when the      *)
(* listeners were set up; the listener of the scroll delay slider makes a  *)
(* new one at every input event.  A debounced function d keeps its own     *)
(* timer, timeout[d].  The clock moves by half the wait, and a timer fires *)
(* when its time has come, before the clock moves on.                      *)
(***************************************************************************)
Elements == 1..NElements

Slider == 0

Step == Wait \div 2

\* the input events of the slider so far
SliderInputs == Len(SelectSeq(events, LAMBDA e : e.source = Slider))

\* executedFunction: clearTimeout(timeout); timeout = setTimeout(later, wait)
executedFunction(d) == timeout' = [timeout EXCEPT ![d] = clock + Wait]

\* a change event on a select or a checkbox: its debounced function runs
Change(e) ==
    /\ Len(events) < MaxEvents
    /\ executedFunction(e)
    /\ events' = Append(events, [source |-> e, time |-> clock])
    /\ UNCHANGED <<clock, saved, engine, extension, editor>>

\* an input event on the slider: debounce(autoSave, 1000)()
SliderInput ==
    /\ Len(events) < MaxEvents
    /\ executedFunction(NElements + SliderInputs + 1)
    /\ events' = Append(events, [source |-> Slider, time |-> clock])
    /\ UNCHANGED <<clock, saved, engine, extension, editor>>

\* later: clearTimeout(timeout); func(...args), which calls saveSettings
TimerFires(d) ==
    /\ timeout[d] >= 0
    /\ timeout[d] <= clock
    /\ timeout' = [timeout EXCEPT ![d] = -1]
    /\ saved' = Append(saved, clock)
    /\ UNCHANGED <<clock, events, engine, extension, editor>>

\* time goes by while a timer is pending and none is due
TimePasses ==
    /\ \E d \in Debounced : timeout[d] >= 0
    /\ \A d \in Debounced : timeout[d] = -1 \/ timeout[d] > clock
    /\ clock' = clock + Step
    /\ UNCHANGED <<timeout, events, saved, engine, extension, editor>>

OptionsInit ==
    /\ EngineIdle
    /\ ExtensionIdle
    /\ OptionsIdle
    /\ EditorIdle

OptionsNext ==
    \/ \E e \in Elements : Change(e)
    \/ SliderInput
    \/ \E d \in Debounced : TimerFires(d)
    \/ TimePasses

OptionsSpec == OptionsInit /\ [][OptionsNext]_vars

(***************************************************************************)
(* C38.  Auto-save on the options page is debounced: for a burst of        *)
(* setting changes (change events of selects and checkboxes, input events  *)
(* of the scroll delay slider) in which consecutive events are less than   *)
(* 1000 ms apart, saveSettings is called at most once, 1000 ms after the   *)
(* last event of the burst.                                                *)
(***************************************************************************)
\* event i is the last of its burst: none follows within the wait
EndsBurst(i) ==
    i = Len(events) \/ events[i + 1].time - events[i].time >= Wait

C38_OneSavePerBurst ==
    /\ \A k \in 1..Len(saved) :
          \E i \in 1..Len(events) :
              /\ EndsBurst(i)
              /\ saved[k] = events[i].time + Wait
    /\ \A k, l \in 1..Len(saved) : k # l => saved[k] # saved[l]

(***************************************************************************)
(* The editor: saveState, undo and redo.  An entry of editHistory is the   *)
(* number of the canvas.toDataURL() call that made it.                     *)
(***************************************************************************)
\* saveState without the slice
NotSliced(history, index) == history

\* editHistory.slice(0, historyIndex + 1)
Sliced(history, index) == SubSeq(history, 1, index + 1)

\* toDataURL: what the canvas shows, a picture unlike those before
toDataURL == snapshots + 1

saveState ==
    /\ snapshots < MaxSaves
    /\ LET pushed == Append(Sliced(editHistory, historyIndex), toDataURL)
       IN  IF Len(pushed) > HistoryLimit
           THEN /\ editHistory' = Tail(pushed)
                /\ historyIndex' = (historyIndex + 1) - 1
           ELSE /\ editHistory' = pushed
                /\ historyIndex' = historyIndex + 1
    /\ snapshots' = snapshots + 1
    /\ UNCHANGED <<undone, engine, extension, optionsPage>>

undo ==
    /\ undone < MaxUndos
    /\ IF historyIndex > 0
       THEN /\ historyIndex' = historyIndex - 1
            /\ undone' = undone + 1
       ELSE UNCHANGED <<historyIndex, undone>>
    /\ UNCHANGED <<editHistory, snapshots, engine, extension, optionsPage>>

redo ==
    /\ IF historyIndex < Len(editHistory) - 1
       THEN historyIndex' = historyIndex + 1
       ELSE UNCHANGED historyIndex
    /\ UNCHANGED <<editHistory, snapshots, undone, engine, extension, optionsPage>>

EditorInit ==
    /\ EngineIdle
    /\ ExtensionIdle
    /\ OptionsIdle
    /\ EditorIdle

EditorNext ==
    \/ saveState
    \/ undo
    \/ redo

EditorSpec == EditorInit /\ [][EditorNext]_vars

(***************************************************************************)
(* C39.  After any sequence of saveState, undo and redo that starts with a *)
(* saveState, editHistory has between 1 and 20 entries and 0 <=            *)
(* historyIndex <= editHistory.length - 1.  saveState leaves historyIndex  *)
(* at the last entry and discards every entry after the previous index, so *)
(* that redo does nothing right after it, and evicts the oldest entry when *)
(* the 21st is added.  undo at index 0 and redo at the last index change   *)
(* nothing.                                                                *)
(***************************************************************************)
C39_Bounds ==
    IF snapshots = 0
    THEN editHistory = <<>> /\ historyIndex = -1
    ELSE /\ 1 <= Len(editHistory) /\ Len(editHistory) <= 20
         /\ 0 <= historyIndex /\ historyIndex <= Len(editHistory) - 1

C39_Steps ==
    [][ /\ snapshots' # snapshots =>
              LET kept == [k \in 1..(historyIndex + 1) |-> editHistory[k]]
                  all  == kept \o << snapshots' >>
              IN  /\ historyIndex' = Len(editHistory') - 1
                  /\ editHistory'[Len(editHistory')] = snapshots'
                  /\ ~(historyIndex' < Len(editHistory') - 1)
                  /\ IF historyIndex + 2 <= 20
                     THEN editHistory' = all
                     ELSE /\ Len(all) = 21
                          /\ Len(editHistory') = 20
                          /\ editHistory' = [k \in 1..20 |-> all[k + 1]]
        /\ snapshots' = snapshots =>
              /\ editHistory' = editHistory
              /\ \/ /\ undone' = undone + 1
                    /\ historyIndex > 0
                    /\ historyIndex' = historyIndex - 1
                 \/ /\ undone' = undone
                    /\ historyIndex < Len(editHistory) - 1
                    /\ historyIndex' = historyIndex + 1 ]_vars

C39_HistoryWithinLimits ==
    /\ []C39_Bounds
    /\ C39_Steps

\* twenty entries, the oldest evicted, after an undo whose redo entry was
\* discarded by a later saveState
C39_Witness ==
    /\ Len(editHistory) = 20
    /\ editHistory[1] > 1
    /\ historyIndex = 19
    /\ undone > 0
    /\ \E k \in 1..19 : editHistory[k + 1] > editHistory[k] + 1
=============================================================================
